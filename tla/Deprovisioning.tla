---------------------------- MODULE Deprovisioning ----------------------------
(***************************************************************************)
(* What SCIM deprovisioning promises, without saying how: users have a     *)
(* standing and a set of identifiers, sessions are held under identifiers, *)
(* and taking a user's standing away makes every session held under the    *)
(* user's identifiers due; a session that is due stays due until it is     *)
(* ended, and it is ended.  Ended is final.                                *)
(***************************************************************************)
CONSTANTS UserId, SessionId, Name

VARIABLES
    standing,   \* "none", "active", "inactive" or "deleted"
    names,      \* a user's identifiers
    access,     \* a session: "none", "live" or "ended"
    holder,     \* the identifiers a session is held under
    due         \* live sessions that have to end

vars == <<standing, names, access, holder, due>>

Init ==
    /\ standing = [u \in UserId |-> "none"]
    /\ names = [u \in UserId |-> {}]
    /\ access = [s \in SessionId |-> "none"]
    /\ holder = [s \in SessionId |-> {}]
    /\ due = {}

HeldUnder(identifiers) ==
    {s \in SessionId : access[s] = "live" /\ holder[s] \cap identifiers # {}}

\* A user is added, or one that keeps or regains standing is rewritten.
Provision(u) ==
    /\ standing[u] # "deleted"
    /\ \E next \in IF standing[u] = "active" THEN {"active"} ELSE {"active", "inactive"} :
          standing' = [standing EXCEPT ![u] = next]
    /\ \E identifiers \in SUBSET Name : names' = [names EXCEPT ![u] = identifiers]
    /\ UNCHANGED <<access, holder, due>>

\* The user is deactivated, under the identifiers the user now has.
Deactivate(u) ==
    /\ standing[u] \in {"active", "inactive"}
    /\ standing' = [standing EXCEPT ![u] = "inactive"]
    /\ \E identifiers \in SUBSET Name :
          /\ names' = [names EXCEPT ![u] = identifiers]
          /\ due' = due \cup HeldUnder(identifiers)
    /\ UNCHANGED <<access, holder>>

\* The user is deleted, or deleted once more.
Delete(u) ==
    /\ standing[u] # "none"
    /\ standing' = [standing EXCEPT ![u] = "deleted"]
    /\ names' = [names EXCEPT ![u] = {}]
    /\ \E identifiers \in {names[u]} \cup IF standing[u] = "deleted" THEN SUBSET Name ELSE {} :
          due' = due \cup HeldUnder(identifiers)
    /\ UNCHANGED <<access, holder>>

Issue(s) ==
    /\ access[s] = "none"
    /\ access' = [access EXCEPT ![s] = "live"]
    /\ \E identifiers \in SUBSET Name : holder' = [holder EXCEPT ![s] = identifiers]
    /\ UNCHANGED <<standing, names, due>>

End(S) ==
    /\ access' = [s \in SessionId |-> IF s \in S /\ access[s] = "live" THEN "ended" ELSE access[s]]
    /\ due' = due \ S
    /\ UNCHANGED <<standing, names, holder>>

Next ==
    \/ \E u \in UserId : Provision(u) \/ Deactivate(u) \/ Delete(u)
    \/ \E s \in SessionId : Issue(s)
    \/ \E S \in SUBSET SessionId : End(S)

Spec ==
    /\ Init /\ [][Next]_vars
    /\ \A s \in SessionId : WF_vars(\E S \in SUBSET SessionId : s \in due \cap S /\ End(S))

=============================================================================
