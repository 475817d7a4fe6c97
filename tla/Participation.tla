---------------------------- MODULE Participation ----------------------------
(***************************************************************************)
(* What a group promises about who takes part in it, before any rows,      *)
(* tokens, numbers or deliveries: an account has one standing or none, a   *)
(* group with an active account stays, and the one that loses its last     *)
(* active account ends for good.                                           *)
(*                                                                         *)
(* Group (the object and all its handlers) implements it, and so does the  *)
(* reduced object inside IndexFlush, which is how the two are known to     *)
(* speak of the same roster.                                               *)
(***************************************************************************)
CONSTANTS
    Profiles,      \* accounts
    None           \* no standing

VARIABLES
    status,        \* "none", "live" or "purged"
    place          \* each account's standing: "active", "left" or None

vars == <<status, place>>

Active == {p \in Profiles : place[p] = "active"}

\* Creating, joining, claiming and coming back.
Enter(p) ==
    /\ status # "purged"
    /\ place[p] # "active"
    /\ status' = "live"
    /\ place' = [place EXCEPT ![p] = "active"]

\* An account leaves, or is removed, and others go on.
Leave(p) ==
    /\ status = "live"
    /\ place[p] = "active"
    /\ Active # {p}
    /\ place' = [place EXCEPT ![p] = "left"]
    /\ UNCHANGED status

\* An account is gone, and others go on.
Forget(p) ==
    /\ status = "live"
    /\ place[p] # None
    /\ Active # {p}
    /\ place' = [place EXCEPT ![p] = None]
    /\ UNCHANGED status

\* A guest's place becomes the place of the account it signed in to.
HandOver(guest, heir) ==
    /\ status = "live"
    /\ place[guest] # None /\ place[heir] = None
    /\ place' = [place EXCEPT ![heir] = place[guest], ![guest] = None]
    /\ UNCHANGED status

\* An heir who had left comes back as the guest it replaces goes.
ReturnFor(guest, heir) ==
    /\ status = "live"
    /\ place[guest] = "active" /\ place[heir] = "left"
    /\ place' = [place EXCEPT ![heir] = "active", ![guest] = None]
    /\ UNCHANGED status

\* The last active account goes, and the group with it.
End(p) ==
    /\ status = "live"
    /\ Active = {p}
    /\ status' = "purged"
    /\ place' = [q \in Profiles |-> None]

Init ==
    /\ status = "none"
    /\ place = [p \in Profiles |-> None]

Happens ==
    \E p \in Profiles :
        \/ Enter(p) \/ Leave(p) \/ Forget(p) \/ End(p)
        \/ \E heir \in Profiles : HandOver(p, heir) \/ ReturnFor(p, heir)

\* Whatever happens changes somebody's standing: said first, it tells the many
\* steps that happen to nobody apart at once.
Next == place' # place /\ Happens

Spec == Init /\ [][Next]_vars
=============================================================================
