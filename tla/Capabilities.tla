----------------------------- MODULE Capabilities -----------------------------
(***************************************************************************)
(* The capability manager (kernel/src/security.rs): a table of tokens that *)
(* are granted into the first free slot and revoked by id.  Every method   *)
(* runs under the manager's lock and is one step here.  The risk level is  *)
(* never read and is left out.                                             *)
(***************************************************************************)
EXTENDS Integers

CONSTANTS
    MAX_CAPABILITIES,
    Tasks, CapScopes,
    Permissions,     \* the bits of a permission word
    MaxGrants        \* bound on next_id for model checking

ASSUME CapabilitiesAssumption == MAX_CAPABILITIES \in Nat \ {0} /\ MaxGrants \in Nat

VARIABLES
    capabilities,    \* slot -> capability, or NoCap
    next_id

capVars == <<capabilities, next_id>>

CapSlots == 1..MAX_CAPABILITIES
NoCap == [id |-> 0]

CapabilityRecords(maxId) ==
    [id : 1..maxId, owner : Tasks, scope : CapScopes, permissions : SUBSET Permissions,
     revocable : BOOLEAN]

CapInit ==
    /\ capabilities = [s \in CapSlots |-> NoCap]
    /\ next_id = 1

Free(s) == capabilities[s] = NoCap
FirstFree(s) == Free(s) /\ \A t \in CapSlots : t < s => ~Free(t)

\* Fault: ids follow the slots.
GrantSlotId(owner, scope, permissions, revocable) ==
    \E s \in CapSlots :
        /\ FirstFree(s)
        /\ next_id <= MaxGrants
        /\ capabilities' = [capabilities EXCEPT ![s] =
               [id |-> s, owner |-> owner, scope |-> scope, permissions |-> permissions,
                revocable |-> revocable]]
        /\ next_id' = next_id + 1

\* grant; a full table refuses without a change.
Grant(owner, scope, permissions, revocable) ==
    \E s \in CapSlots :
        /\ FirstFree(s)
        /\ next_id <= MaxGrants
        /\ capabilities' = [capabilities EXCEPT ![s] =
               [id |-> next_id, owner |-> owner, scope |-> scope, permissions |-> permissions,
                revocable |-> revocable]]
        /\ next_id' = next_id + 1

\* revoke; an unknown or permanent capability is left alone.
Revoke(id) ==
    \E s \in CapSlots :
        /\ ~Free(s) /\ capabilities[s].id = id
        /\ capabilities[s].revocable
        /\ capabilities' = [capabilities EXCEPT ![s] = NoCap]
        /\ UNCHANGED next_id

\* check: whether the capability in a slot satisfies a requirement, and which
\* id is found first.
Matches(s, task, required, scope) ==
    /\ ~Free(s)
    /\ capabilities[s].owner = task
    /\ capabilities[s].scope = scope
    /\ required \in capabilities[s].permissions

Holds(task, required, scope) == \E s \in CapSlots : Matches(s, task, required, scope)

FirstMatch(task, required, scope) ==
    capabilities[CHOOSE s \in CapSlots :
        /\ Matches(s, task, required, scope)
        /\ \A t \in CapSlots : t < s => ~Matches(t, task, required, scope)].id

CapNext ==
    \/ \E owner \in Tasks, scope \in CapScopes, permissions \in SUBSET Permissions,
          revocable \in BOOLEAN : Grant(owner, scope, permissions, revocable)
    \/ \E id \in 1..MaxGrants : Revoke(id)

CapSpec == CapInit /\ [][CapNext]_capVars

-----------------------------------------------------------------------------
Ids == {capabilities[s].id : s \in {t \in CapSlots : ~Free(t)}}

\* Table and counter have their types.
CapTypeOK ==
    /\ next_id \in 1..(MaxGrants + 1)
    /\ capabilities \in [CapSlots -> CapabilityRecords(MaxGrants) \cup {NoCap}]

\* An id names at most one capability, so that revoke and the audit log mean
\* the one that was granted under it.
IdsUnique ==
    \A s, t \in CapSlots :
        /\ ~Free(s) => capabilities[s].id < next_id
        /\ ~Free(s) /\ ~Free(t) /\ capabilities[s].id = capabilities[t].id => s = t

\* A revoked id is dead: no reuse of its slot brings it back.
RevokedStaysRevoked ==
    [][\A id \in 1..MaxGrants : id < next_id /\ id \notin Ids => id \notin Ids']_capVars

\* A capability that is not revocable stays as it was granted, whatever is
\* granted and revoked around it.
PermanentStays ==
    [][\A s \in CapSlots :
           ~Free(s) /\ ~capabilities[s].revocable => capabilities'[s] = capabilities[s]]_capVars
=============================================================================
