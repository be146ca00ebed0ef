---------------------------- MODULE PrivateState ----------------------------
(***************************************************************************)
(* What the private-state store keeps and how it answers its two calls:    *)
(* the interface Store of go/internal/indexer/state, as functions of the   *)
(* state a call finds.                                                     *)
(***************************************************************************)

CONSTANTS JTIs, PackageIDs, RepositoryIDs, None

ASSUME StateNoneAssumption == None \notin RepositoryIDs

States == [usedJTI : SUBSET JTIs, bindings : [PackageIDs -> RepositoryIDs \cup {None}]]

\* The state of a store that was never written.
NoState == [usedJTI |-> {}, bindings |-> [p \in PackageIDs |-> None]]

\* The arguments of CheckAndReserveJTI and of CheckOrBindPackage.
ReserveCalls == [jti : JTIs]
BindCalls == [package : PackageIDs, repositoryId : RepositoryIDs]
Calls == ReserveCalls \cup BindCalls

Answers == {"nil", "ErrReplayDetected", "ErrOwnershipMismatch"}

Answer(s, call) ==
    IF call \in ReserveCalls
    THEN IF call.jti \in s.usedJTI THEN "ErrReplayDetected" ELSE "nil"
    ELSE IF s.bindings[call.package] \in {None, call.repositoryId}
         THEN "nil" ELSE "ErrOwnershipMismatch"

\* The state after a call that is answered nil.
After(s, call) ==
    IF call \in ReserveCalls
    THEN [s EXCEPT !.usedJTI = @ \cup {call.jti}]
    ELSE [s EXCEPT !.bindings = [@ EXCEPT ![call.package] = call.repositoryId]]
=============================================================================
