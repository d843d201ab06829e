-------------------------- MODULE ApprovalStoreProofs --------------------------
(***************************************************************************)
(* Proofs about the approval store, for every backend, any number of       *)
(* approvals and claims, every TTL and every lag of a caller's clock.      *)
(*                                                                         *)
(* None of the store's invariants is inductive alone: that a claim may be  *)
(* taken over depends on the expiry the record keeps being the expiry its  *)
(* holder was given, and on no other claim reaching beyond the start of    *)
(* the holder's.  StoreInv says both.                                      *)
(***************************************************************************)
EXTENDS ApprovalStore, TLAPS

\* A record has a holder exactly when it has been claimed, the holder's claim is
\* on this record, and both agree on when it ends.
HolderInv ==
    \A a \in Approvals :
        /\ rec[a].state \in {"absent", "pending"} <=> rec[a].token = Nil
        /\ rec[a].marker # None => rec[a].token # Nil
        /\ rec[a].token # Nil =>
              /\ issued[rec[a].token].approval = a
              /\ issued[rec[a].token].exp = rec[a].exp

\* Every claim on a record is its holder's, or ended before the holder's began.
LatestInv ==
    \A tok \in Tokens : IsIssued(tok) =>
        LET h == rec[issued[tok].approval].token IN
        /\ h \in Tokens
        /\ tok = h \/ issued[tok].exp <= issued[h].from

\* A claim lasts ClaimTTL, and only the holder of a claim decides an outcome.
ClaimInv ==
    \A tok \in Tokens :
        /\ IsIssued(tok) => issued[tok].exp = issued[tok].from + ClaimTTL
        /\ issued[tok].outcome # None => IsIssued(tok)

StoreInv ==
    /\ StoreTypeOK
    /\ HolderInv
    /\ LatestInv
    /\ ClaimInv
    /\ VerdictIsTheHolders
    /\ ClaimWindowsDisjoint

--------------------------------------------------------------------------------
(* What each operation leaves in the store, in terms of the record it touches. *)

\* The initial store satisfies the invariant: nothing is claimed.
LEMMA InitEstablishes == Init => StoreInv
  <1> USE StoreAssumption
  <1> SUFFICES ASSUME Init PROVE StoreInv
    OBVIOUS
  <1>1. StoreTypeOK
    BY DEF Init, StoreTypeOK, AbsentRecord, Unissued, Record, Claim, States,
           TerminalStates, None
  <1>2. HolderInv /\ LatestInv /\ ClaimInv
    BY DEF Init, HolderInv, LatestInv, ClaimInv, IsIssued, AbsentRecord, Unissued,
           None
  <1>3. VerdictIsTheHolders /\ ClaimWindowsDisjoint
    BY DEF Init, VerdictIsTheHolders, ClaimWindowsDisjoint, IsIssued, IsTerminal,
           TerminalStates, AbsentRecord, Unissued, None
  <1> QED BY <1>1, <1>2, <1>3 DEF StoreInv

\* create_pending only turns an absent record into a pending one without a holder.
LEMMA CreateKeeps ==
    ASSUME NEW a \in Approvals, StoreInv, CreatePending(a) PROVE StoreInv'
  <1> USE StoreAssumption
  <1>1. /\ rec' = [rec EXCEPT ![a] = PendingRecord]
        /\ UNCHANGED <<now, issued>>
        /\ rec[a].state = "absent"
    BY DEF CreatePending
  <1>2. rec \in [Approvals -> Record] /\ issued \in [Tokens -> Claim] /\ now \in Nat
    BY DEF StoreInv, StoreTypeOK
  <1>3. /\ PendingRecord \in Record
        /\ PendingRecord.token = Nil /\ PendingRecord.marker = None
        /\ PendingRecord.state = "pending"
    BY <1>2 DEF PendingRecord, Record, States, None, StoreAssumption
  <1>4. rec[a].token = Nil
    BY <1>1 DEF StoreInv, HolderInv
  <1>5. StoreTypeOK'
    BY <1>1, <1>2, <1>3 DEF StoreTypeOK
  <1>6. HolderInv'
    BY <1>1, <1>2, <1>3 DEF StoreInv, HolderInv
  <1>7. LatestInv' /\ ClaimInv'
    BY <1>1, <1>2, <1>4 DEF StoreInv, LatestInv, ClaimInv, IsIssued, Claim
  <1>8. VerdictIsTheHolders' /\ ClaimWindowsDisjoint'
    BY <1>1, <1>2, <1>3 DEF StoreInv, VerdictIsTheHolders, ClaimWindowsDisjoint,
                             IsIssued, IsTerminal, TerminalStates
  <1> QED BY <1>5, <1>6, <1>7, <1>8 DEF StoreInv

\* A claim is granted only on a record nobody holds, or whose holder's claim has
\* ended by the caller's own clock and left no marker.
LEMMA ClaimPrecondition ==
    ASSUME NEW a \in Approvals, NEW t \in Nat, StoreInv, ClaimResult(a, t) = "ok"
    PROVE  /\ rec[a].marker = None
           /\ \/ rec[a].state = "pending" /\ rec[a].token = Nil
              \/ rec[a].state = "claimed" /\ rec[a].exp <= t
  <1>1. rec[a] \in Record
    BY DEF StoreInv, StoreTypeOK
  <1>2. rec[a].state \in States /\ rec[a].exp \in Nat
    BY <1>1 DEF Record
  <1>3. ClaimFinds(a, t) /\ ValidateClaimTransition(rec[a], t) = "ok"
    BY DEF ClaimResult
  <1>4. rec[a].state # "absent"
    BY <1>3 DEF ClaimFinds, Exists
  <1>5. /\ rec[a].marker = None /\ ~IsTerminal(rec[a].state)
        /\ ~(rec[a].state = "claimed" /\ t < rec[a].exp)
    BY <1>3 DEF ValidateClaimTransition
  <1>6. rec[a].state \in {"pending", "claimed"}
    BY <1>2, <1>4, <1>5 DEF States, IsTerminal
  <1>7. rec[a].state = "pending" => rec[a].token = Nil
    BY DEF StoreInv, HolderInv
  <1> QED BY <1>2, <1>5, <1>6, <1>7

\* claim_pending: the window of the new claim begins where every earlier one on
\* this record has already ended.
LEMMA ClaimKeeps ==
    ASSUME NEW a \in Approvals, NEW tok \in Tokens, NEW t \in CallerClock,
           StoreInv, ClaimPending(a, tok, t)
    PROVE  StoreInv'
  <1> USE StoreAssumption
  <1> DEFINE r == [rec[a] EXCEPT !.state = "claimed", !.token = tok,
                                 !.exp = t + ClaimTTL]
             c == [approval |-> a, from |-> t, exp |-> t + ClaimTTL,
                   outcome |-> None]
  <1>1. rec \in [Approvals -> Record] /\ issued \in [Tokens -> Claim] /\ now \in Nat
    BY DEF StoreInv, StoreTypeOK
  <1>2. t \in Nat /\ t + ClaimTTL \in Nat /\ t <= t + ClaimTTL
    BY <1>1 DEF CallerClock, StoreAssumption
  <1>3. /\ rec' = [rec EXCEPT ![a] = r]
        /\ issued' = [issued EXCEPT ![tok] = c]
        /\ UNCHANGED now /\ ~IsIssued(tok) /\ ClaimResult(a, t) = "ok"
    BY <1>1 DEF ClaimPending
  <1>4. /\ r \in Record /\ r.state = "claimed" /\ r.token = tok
        /\ r.exp = t + ClaimTTL /\ r.marker = rec[a].marker
    BY <1>1, <1>2 DEF Record, States
  <1>5. /\ c \in Claim /\ c.approval = a /\ c.from = t
        /\ c.exp = t + ClaimTTL /\ c.outcome = None
    BY <1>2 DEF Claim
  <1> HIDE DEF r, c
  <1>6. /\ rec[a].marker = None
        /\ \/ rec[a].token = Nil
           \/ rec[a].token \in Tokens /\ rec[a].exp <= t
    BY <1>1, <1>2, <1>3, ClaimPrecondition DEF Record
  <1>7. \A k \in Tokens : (IsIssued(k) /\ issued[k].approval = a) => issued[k].exp <= t
    <2> SUFFICES ASSUME NEW k \in Tokens, IsIssued(k), issued[k].approval = a
                 PROVE  issued[k].exp <= t
      OBVIOUS
    <2> DEFINE h == rec[a].token
    <2>1. /\ h \in Tokens
          /\ k = h \/ issued[k].exp <= issued[h].from
      BY DEF StoreInv, LatestInv
    <2>2. h # Nil
      BY <2>1 DEF StoreAssumption
    <2>3. issued[h].approval = a /\ issued[h].exp = rec[a].exp /\ rec[a].exp <= t
      BY <1>6, <2>2 DEF StoreInv, HolderInv
    <2>4. issued[h].exp = issued[h].from + ClaimTTL
      BY <2>1, <2>2, <2>3 DEF StoreInv, ClaimInv, IsIssued, StoreAssumption
    <2>5. /\ issued[h].from \in Nat /\ issued[h].exp \in Nat /\ issued[k].exp \in Nat
          /\ ClaimTTL \in Nat
      BY <1>1, <2>1 DEF Claim, StoreAssumption
    <2> QED BY <1>2, <2>1, <2>3, <2>4, <2>5
  <1>8. StoreTypeOK'
    BY <1>1, <1>3, <1>4, <1>5 DEF StoreTypeOK
  <1>9. HolderInv'
    <2> SUFFICES ASSUME NEW b \in Approvals
                 PROVE  /\ rec'[b].state \in {"absent", "pending"} <=> rec'[b].token = Nil
                        /\ rec'[b].marker # None => rec'[b].token # Nil
                        /\ rec'[b].token # Nil =>
                              /\ issued'[rec'[b].token].approval = b
                              /\ issued'[rec'[b].token].exp = rec'[b].exp
      BY DEF HolderInv
    <2>1. CASE b = a
      BY <1>1, <1>3, <1>4, <1>5, <2>1 DEF StoreAssumption
    <2>2. CASE b # a
      <3>1. rec'[b] = rec[b]
        BY <1>1, <1>3, <2>2
      <3>2. rec[b].token # Nil => rec[b].token # tok
        BY <1>3 DEF StoreInv, HolderInv, IsIssued, StoreAssumption
      <3>3. rec[b].token # Nil => rec[b].token \in Tokens
        BY <1>1 DEF Record
      <3> QED BY <1>1, <1>3, <3>1, <3>2, <3>3 DEF StoreInv, HolderInv
    <2> QED BY <2>1, <2>2
  <1>10. LatestInv'
    <2> SUFFICES ASSUME NEW k \in Tokens, issued'[k].approval # Nil
                 PROVE  LET h == rec'[issued'[k].approval].token IN
                        /\ h \in Tokens
                        /\ k = h \/ issued'[k].exp <= issued'[h].from
      BY DEF LatestInv, IsIssued
    <2>1. CASE k = tok
      BY <1>1, <1>3, <1>4, <1>5, <2>1
    <2>2. CASE k # tok
      <3>1. issued'[k] = issued[k] /\ IsIssued(k) /\ issued[k].approval \in Approvals
        BY <1>1, <1>3, <2>2 DEF IsIssued, Claim
      <3>2. CASE issued[k].approval = a
        BY <1>1, <1>3, <1>4, <1>5, <1>7, <3>1, <3>2
      <3>3. CASE issued[k].approval # a
        <4> DEFINE b == issued[k].approval
                   h == rec[b].token
        <4>1. rec'[b] = rec[b]
          BY <1>1, <1>3, <3>1, <3>3
        <4>2. /\ h \in Tokens
              /\ k = h \/ issued[k].exp <= issued[h].from
          BY <3>1 DEF StoreInv, LatestInv
        <4>3. h # tok
          BY <1>3, <3>1, <4>2 DEF StoreInv, HolderInv, IsIssued, StoreAssumption
        <4> QED BY <1>1, <1>3, <3>1, <4>1, <4>2, <4>3
      <3> QED BY <3>2, <3>3
    <2> QED BY <2>1, <2>2
  <1>11. ClaimInv'
    BY <1>1, <1>3, <1>5 DEF StoreInv, ClaimInv, IsIssued
  <1>12. VerdictIsTheHolders'
    <2> SUFFICES ASSUME NEW b \in Approvals
                 PROVE /\ rec'[b].marker # None =>
                             rec'[b].marker = issued'[rec'[b].token].outcome
                       /\ IsTerminal(rec'[b].state) =>
                             rec'[b].state = issued'[rec'[b].token].outcome
      BY DEF VerdictIsTheHolders
    <2>1. CASE b = a
      BY <1>1, <1>3, <1>4, <1>6, <2>1 DEF IsTerminal, TerminalStates
    <2>2. CASE b # a
      <3>1. rec'[b] = rec[b]
        BY <1>1, <1>3, <2>2
      <3>2. rec[b].token # Nil => rec[b].token # tok /\ rec[b].token \in Tokens
        BY <1>1, <1>3 DEF StoreInv, HolderInv, IsIssued, StoreAssumption, Record
      <3>3. rec[b].marker # None \/ IsTerminal(rec[b].state) => rec[b].token # Nil
        BY DEF StoreInv, HolderInv, IsTerminal, TerminalStates
      <3> QED BY <1>1, <1>3, <3>1, <3>2, <3>3 DEF StoreInv, VerdictIsTheHolders
    <2> QED BY <2>1, <2>2
  <1>13. ClaimWindowsDisjoint'
    <2> SUFFICES ASSUME NEW t1 \in Tokens, NEW t2 \in Tokens, t1 # t2,
                        issued'[t1].approval # Nil,
                        issued'[t1].approval = issued'[t2].approval
                 PROVE  \/ issued'[t1].exp <= issued'[t2].from
                        \/ issued'[t2].exp <= issued'[t1].from
      BY DEF ClaimWindowsDisjoint, IsIssued
    <2>1. CASE t1 = tok
      BY <1>1, <1>3, <1>5, <1>7, <2>1 DEF IsIssued, StoreAssumption
    <2>2. CASE t2 = tok
      BY <1>1, <1>3, <1>5, <1>7, <2>2 DEF IsIssued, StoreAssumption
    <2>3. CASE t1 # tok /\ t2 # tok
      BY <1>1, <1>3, <2>3 DEF StoreInv, ClaimWindowsDisjoint, IsIssued
    <2> QED BY <2>1, <2>2, <2>3
  <1> QED BY <1>8, <1>9, <1>10, <1>11, <1>12, <1>13 DEF StoreInv

\* A holder that has not decided yet has left no marker and closed nothing, so
\* its decision contradicts no verdict.
LEMMA DecideKeeps ==
    ASSUME NEW tok \in Tokens, NEW kind \in TerminalStates,
           StoreInv, Decide(tok, kind)
    PROVE  StoreInv'
  <1> USE StoreAssumption
  <1> DEFINE c == [issued[tok] EXCEPT !.outcome = kind]
  <1>1. rec \in [Approvals -> Record] /\ issued \in [Tokens -> Claim] /\ now \in Nat
    BY DEF StoreInv, StoreTypeOK
  <1>2. /\ issued' = [issued EXCEPT ![tok] = c]
        /\ UNCHANGED <<now, rec>> /\ IsIssued(tok) /\ issued[tok].outcome = None
    BY <1>1 DEF Decide
  <1>3. /\ c \in Claim /\ c.approval = issued[tok].approval
        /\ c.from = issued[tok].from /\ c.exp = issued[tok].exp
    BY <1>1 DEF Claim
  <1> HIDE DEF c
  <1>4. StoreTypeOK'
    BY <1>1, <1>2, <1>3 DEF StoreTypeOK
  <1>5. \A k \in Tokens : /\ issued'[k].approval = issued[k].approval
                          /\ issued'[k].from = issued[k].from
                          /\ issued'[k].exp = issued[k].exp
    BY <1>1, <1>2, <1>3
  <1>6. \A a \in Approvals : rec[a].token # Nil => rec[a].token \in Tokens
    BY <1>1 DEF Record
  <1>7. HolderInv'
    BY <1>2, <1>5, <1>6 DEF StoreInv, HolderInv
  <1>8. LatestInv'
    BY <1>2, <1>5 DEF StoreInv, LatestInv, IsIssued
  <1>9. ClaimInv'
    BY <1>1, <1>2, <1>5 DEF StoreInv, ClaimInv, IsIssued
  <1>10. VerdictIsTheHolders'
    <2>1. \A a \in Approvals : (rec[a].marker # None \/ IsTerminal(rec[a].state)) =>
              rec[a].token \in Tokens /\ rec[a].token # tok
      BY <1>2, <1>6 DEF StoreInv, HolderInv, VerdictIsTheHolders, IsTerminal,
                        TerminalStates, None
    <2>2. \A k \in Tokens : k # tok => issued'[k] = issued[k]
      BY <1>1, <1>2
    <2> QED BY <1>2, <2>1, <2>2 DEF StoreInv, VerdictIsTheHolders
  <1>11. ClaimWindowsDisjoint'
    BY <1>5 DEF StoreInv, ClaimWindowsDisjoint, IsIssued
  <1> QED BY <1>4, <1>7, <1>8, <1>9, <1>10, <1>11 DEF StoreInv

\* Only the holder passes require_claimed_with_token, and it closes the record it
\* holds: the rest of the record stays as it is.
LEMMA HolderWrites ==
    ASSUME NEW tok \in Tokens, StoreInv, issued[tok].outcome # None,
           rec[issued[tok].approval].state = "claimed",
           rec[issued[tok].approval].token = tok,
           NEW r \in Record, r.token = tok, r.exp = rec[issued[tok].approval].exp,
           r.state \in {"claimed", issued[tok].outcome},
           r.marker \in {rec[issued[tok].approval].marker, issued[tok].outcome},
           rec' = [rec EXCEPT ![issued[tok].approval] = r],
           UNCHANGED <<now, issued>>
    PROVE  StoreInv'
  <1> USE StoreAssumption
  <1> DEFINE a == issued[tok].approval
  <1>1. rec \in [Approvals -> Record] /\ issued \in [Tokens -> Claim] /\ now \in Nat
    BY DEF StoreInv, StoreTypeOK
  <1>2. a \in Approvals /\ issued[tok].outcome \in TerminalStates
    BY <1>1 DEF StoreInv, ClaimInv, IsIssued, Claim
  <1>3. rec'[a] = r /\ \A b \in Approvals : b # a => rec'[b] = rec[b]
    BY <1>1, <1>2
  <1>4. \A b \in Approvals : rec'[b].token = rec[b].token /\ rec'[b].exp = rec[b].exp
    BY <1>3
  <1>5. StoreTypeOK'
    BY <1>1, <1>2 DEF StoreTypeOK
  <1>6. HolderInv'
    <2>1. tok # Nil /\ r.state \notin {"absent", "pending"}
      BY <1>2 DEF StoreAssumption, TerminalStates
    <2> QED BY <1>3, <1>4, <2>1 DEF StoreInv, HolderInv
  <1>7. LatestInv'
    BY <1>1, <1>4 DEF StoreInv, LatestInv, IsIssued, Claim
  <1>8. ClaimInv' /\ ClaimWindowsDisjoint'
    BY DEF StoreInv, ClaimInv, ClaimWindowsDisjoint, IsIssued
  <1>9. VerdictIsTheHolders'
    <2>1. r.marker # None => r.marker = issued[tok].outcome
      BY <1>2 DEF StoreInv, VerdictIsTheHolders
    <2>2. IsTerminal(r.state) => r.state = issued[tok].outcome
      BY DEF IsTerminal, TerminalStates
    <2> QED BY <1>3, <2>1, <2>2 DEF StoreInv, VerdictIsTheHolders
  <1> QED BY <1>5, <1>6, <1>7, <1>8, <1>9 DEF StoreInv

\* write_outcome_marker: the marker is the holder's outcome.
LEMMA MarkerKeeps ==
    ASSUME NEW tok \in Tokens, StoreInv, WriteOutcomeMarker(tok) PROVE StoreInv'
  <1> DEFINE a == issued[tok].approval
             r == [rec[a] EXCEPT !.marker = issued[tok].outcome]
  <1>1. rec \in [Approvals -> Record] /\ issued \in [Tokens -> Claim]
    BY DEF StoreInv, StoreTypeOK
  <1>2. a \in Approvals /\ issued[tok].outcome \in TerminalStates
    BY <1>1 DEF WriteOutcomeMarker, StoreInv, ClaimInv, IsIssued, Claim
  <1>3. rec[a].state = "claimed" /\ rec[a].token = tok
    BY DEF WriteOutcomeMarker, MarkerResult, RequireClaimedWithToken
  <1>4. rec' = [rec EXCEPT ![a] = r] /\ UNCHANGED <<now, issued>>
    BY <1>1, <1>2 DEF WriteOutcomeMarker
  <1>5. /\ r \in Record /\ r.token = tok /\ r.exp = rec[a].exp
        /\ r.state = "claimed" /\ r.marker = issued[tok].outcome
    BY <1>1, <1>2, <1>3 DEF Record
  <1>6. issued[tok].outcome # None
    BY DEF WriteOutcomeMarker
  <1> HIDE DEF r
  <1> QED BY <1>3, <1>4, <1>5, <1>6, HolderWrites

\* complete: the terminal state is the holder's outcome.
LEMMA CompleteKeeps ==
    ASSUME NEW tok \in Tokens, StoreInv, Complete(tok) PROVE StoreInv'
  <1> DEFINE a == issued[tok].approval
             x == IF Backend = "redis" THEN now + ForensicsTTL ELSE rec[a].expiresAt
             r == [rec[a] EXCEPT !.state = issued[tok].outcome, !.expiresAt = x]
  <1>1. rec \in [Approvals -> Record] /\ issued \in [Tokens -> Claim] /\ now \in Nat
    BY DEF StoreInv, StoreTypeOK
  <1>2. a \in Approvals /\ issued[tok].outcome \in TerminalStates
    BY <1>1 DEF Complete, StoreInv, ClaimInv, IsIssued, Claim
  <1>3. rec[a].state = "claimed" /\ rec[a].token = tok
    BY DEF Complete, CompleteResult, RequireClaimedWithToken
  <1>4. rec' = [rec EXCEPT ![a] = r] /\ UNCHANGED <<now, issued>>
    BY <1>1, <1>2 DEF Complete, Completed
  <1>5. x \in Nat
    BY <1>1, <1>2, StoreAssumption DEF StoreAssumption, Record
  <1>6. /\ r \in Record /\ r.token = tok /\ r.exp = rec[a].exp
        /\ r.state = issued[tok].outcome /\ r.marker = rec[a].marker
    BY <1>1, <1>2, <1>3, <1>5 DEF Record, States
  <1>7. issued[tok].outcome # None
    BY DEF Complete
  <1> HIDE DEF r, x
  <1> QED BY <1>3, <1>4, <1>6, <1>7, HolderWrites

\* Time alone changes nothing the invariant speaks of.
LEMMA TickKeeps == ASSUME StoreInv, Tick PROVE StoreInv'
  BY DEF Tick, StoreInv, StoreTypeOK, HolderInv, LatestInv, ClaimInv, IsIssued,
         VerdictIsTheHolders, ClaimWindowsDisjoint

\* Nor does a step that leaves the store alone.
LEMMA StutterKeeps == ASSUME StoreInv, UNCHANGED storeVars PROVE StoreInv'
  BY DEF storeVars, StoreInv, StoreTypeOK, HolderInv, LatestInv, ClaimInv, IsIssued,
         VerdictIsTheHolders, ClaimWindowsDisjoint

\* Every operation of the store keeps the invariant.
LEMMA NextKeeps == ASSUME StoreInv, [Next]_storeVars PROVE StoreInv'
  <1>1. CASE \E a \in Approvals : CreatePending(a)
    BY <1>1, CreateKeeps
  <1>2. CASE \E a \in Approvals, tok \in Tokens, t \in CallerClock :
                ClaimPending(a, tok, t)
    BY <1>2, ClaimKeeps
  <1>3. CASE \E tok \in Tokens, kind \in TerminalStates : Decide(tok, kind)
    BY <1>3, DecideKeeps
  <1>4. CASE \E tok \in Tokens : WriteOutcomeMarker(tok) \/ Complete(tok)
    BY <1>4, MarkerKeeps, CompleteKeeps
  <1>5. CASE Tick
    BY <1>5, TickKeeps
  <1>6. CASE UNCHANGED storeVars
    BY <1>6, StutterKeeps
  <1> QED BY <1>1, <1>2, <1>3, <1>4, <1>5, <1>6 DEF Next

--------------------------------------------------------------------------------
(* The results.                                                                *)

\* StoreInv holds in every reachable state of the store.
THEOREM StoreInvariant == Spec => []StoreInv
  BY InitEstablishes, NextKeeps, PTL DEF Spec

\* The store's variables always have their types.
THEOREM StoreTypes == Spec => []StoreTypeOK
  <1>1. StoreInv => StoreTypeOK
    BY DEF StoreInv
  <1> QED BY <1>1, StoreInvariant, PTL

\* Exclusive ownership: no two claims on one approval have overlapping windows,
\* although each was judged by its own caller's lagging clock.
THEOREM ClaimsAreExclusive == Spec => []ClaimWindowsDisjoint
  <1>1. StoreInv => ClaimWindowsDisjoint
    BY DEF StoreInv
  <1> QED BY <1>1, StoreInvariant, PTL

\* The record is held by the claim that was granted last.
THEOREM LatestClaimHolds == Spec => []RecordHeldByLatestClaim
  <1>1. StoreInv => RecordHeldByLatestClaim
    <2> SUFFICES ASSUME StoreInv, NEW a \in Approvals, NEW tok \in Tokens,
                        IsIssued(tok), issued[tok].approval = a
                 PROVE  /\ rec[a].token \in Tokens
                        /\ issued[rec[a].token].approval = a
                        /\ issued[tok].from <= issued[rec[a].token].from
      BY DEF RecordHeldByLatestClaim
    <2> DEFINE h == rec[a].token
    <2>1. h \in Tokens /\ (tok = h \/ issued[tok].exp <= issued[h].from)
      BY DEF StoreInv, LatestInv
    <2>2. issued[h].approval = a
      BY <2>1, StoreAssumption DEF StoreInv, HolderInv, StoreAssumption
    <2>3. issued[tok].exp = issued[tok].from + ClaimTTL
      BY DEF StoreInv, ClaimInv
    <2>4. issued[tok].from \in Nat /\ issued[h].from \in Nat /\ ClaimTTL \in Nat
      BY <2>1, StoreAssumption DEF StoreInv, StoreTypeOK, Claim, StoreAssumption
    <2> QED BY <2>1, <2>2, <2>3, <2>4
  <1> QED BY <1>1, StoreInvariant, PTL

\* Markers and terminal states are verdicts of the holder.
THEOREM VerdictsAreTheHolders == Spec => []VerdictIsTheHolders
  <1>1. StoreInv => VerdictIsTheHolders
    BY DEF StoreInv
  <1> QED BY <1>1, StoreInvariant, PTL

--------------------------------------------------------------------------------
(* What a step of the store may do to one record.                              *)

\* Record a becomes r: it is opened, claimed while it has no marker, or written
\* by its holder, who changes neither the token nor a verdict already visible.
RecordChange(a, r) ==
    /\ rec' = [rec EXCEPT ![a] = r]
    /\ \/ /\ rec[a].state = "absent" /\ rec[a].marker = None
          /\ r.state = "pending" /\ r.marker = None
       \/ /\ rec[a].state \in {"pending", "claimed"} /\ rec[a].marker = None
          /\ r.state = "claimed" /\ r.marker = None
       \/ /\ rec[a].state = "claimed" /\ r.token = rec[a].token
          /\ r.state = "claimed" /\ rec[a].marker = None
          /\ r.marker \in TerminalStates
       \/ /\ rec[a].state = "claimed" /\ r.token = rec[a].token
          /\ r.state \in TerminalStates /\ r.marker = rec[a].marker
          /\ rec[a].marker \in {None, r.state}

\* Every step of the store leaves the records alone or changes one of them so.
LEMMA RecordStep ==
    ASSUME StoreInv, [Next]_storeVars
    PROVE  rec' = rec \/ \E a \in Approvals, r \in Record : RecordChange(a, r)
  <1> USE StoreAssumption
  <1> DEFINE Goal == \E a \in Approvals, r \in Record : RecordChange(a, r)
  <1>1. rec \in [Approvals -> Record] /\ issued \in [Tokens -> Claim] /\ now \in Nat
    BY DEF StoreInv, StoreTypeOK
  <1>2. ASSUME NEW a \in Approvals, CreatePending(a) PROVE Goal
    <2>1. PendingRecord \in Record /\ rec' = [rec EXCEPT ![a] = PendingRecord]
      BY <1>1, <1>2 DEF CreatePending, PendingRecord, Record, States, None,
                        StoreAssumption
    <2>2. PendingRecord.state = "pending" /\ PendingRecord.marker = None
      BY DEF PendingRecord
    <2>3. rec[a].state = "absent" /\ rec[a].marker = None
      BY <1>2 DEF CreatePending, StoreInv, HolderInv
    <2> QED BY <2>1, <2>2, <2>3 DEF RecordChange
  <1>3. ASSUME NEW a \in Approvals, NEW tok \in Tokens, NEW t \in CallerClock,
               ClaimPending(a, tok, t)
        PROVE  Goal
    <2> DEFINE r == [rec[a] EXCEPT !.state = "claimed", !.token = tok,
                                   !.exp = t + ClaimTTL]
    <2>1. t \in Nat /\ t + ClaimTTL \in Nat
      BY <1>1 DEF CallerClock, StoreAssumption
    <2>2. rec' = [rec EXCEPT ![a] = r]
      BY <1>1, <1>3 DEF ClaimPending
    <2>3. r \in Record /\ r.state = "claimed" /\ r.marker = rec[a].marker
      BY <1>1, <2>1 DEF Record, States
    <2> HIDE DEF r
    <2>4. rec[a].marker = None /\ rec[a].state \in {"pending", "claimed"}
      BY <1>3, <2>1, ClaimPrecondition DEF ClaimPending
    <2> QED BY <2>2, <2>3, <2>4 DEF RecordChange
  <1>4. ASSUME NEW tok \in Tokens, WriteOutcomeMarker(tok) PROVE Goal
    <2> DEFINE a == issued[tok].approval
               r == [rec[a] EXCEPT !.marker = issued[tok].outcome]
    <2>1. a \in Approvals /\ issued[tok].outcome \in TerminalStates
      BY <1>1, <1>4 DEF WriteOutcomeMarker, StoreInv, ClaimInv, IsIssued, Claim
    <2>2. rec[a].state = "claimed" /\ rec[a].marker = None
      BY <1>4 DEF WriteOutcomeMarker, MarkerResult, RequireClaimedWithToken
    <2>3. rec' = [rec EXCEPT ![a] = r]
      BY <1>1, <1>4, <2>1 DEF WriteOutcomeMarker
    <2>4. /\ r \in Record /\ r.token = rec[a].token
          /\ r.state = "claimed" /\ r.marker \in TerminalStates
      BY <1>1, <2>1, <2>2 DEF Record
    <2> HIDE DEF r
    <2> QED BY <2>1, <2>2, <2>3, <2>4 DEF RecordChange
  <1>5. ASSUME NEW tok \in Tokens, Complete(tok) PROVE Goal
    <2> DEFINE a == issued[tok].approval
               x == IF Backend = "redis" THEN now + ForensicsTTL ELSE rec[a].expiresAt
               r == [rec[a] EXCEPT !.state = issued[tok].outcome, !.expiresAt = x]
    <2>1. a \in Approvals /\ issued[tok].outcome \in TerminalStates
      BY <1>1, <1>5 DEF Complete, StoreInv, ClaimInv, IsIssued, Claim
    <2>2. rec[a].state = "claimed" /\ rec[a].token = tok
      BY <1>5 DEF Complete, CompleteResult, RequireClaimedWithToken
    <2>3. rec' = [rec EXCEPT ![a] = r]
      BY <1>1, <1>5, <2>1 DEF Complete, Completed
    <2>4. x \in Nat
      BY <1>1, <2>1 DEF StoreAssumption, Record
    <2>5. /\ r \in Record /\ r.token = rec[a].token
          /\ r.state = issued[tok].outcome /\ r.marker = rec[a].marker
      BY <1>1, <2>1, <2>2, <2>4 DEF Record, States
    <2>6. rec[a].marker \in {None, issued[tok].outcome}
      BY <2>1, <2>2 DEF StoreInv, VerdictIsTheHolders
    <2> HIDE DEF r, x
    <2> QED BY <2>1, <2>2, <2>3, <2>5, <2>6 DEF RecordChange
  <1>6. ASSUME NEW tok \in Tokens, NEW kind \in TerminalStates, Decide(tok, kind)
        PROVE  rec' = rec
    BY <1>6 DEF Decide
  <1>7. ASSUME Tick \/ UNCHANGED storeVars PROVE rec' = rec
    BY <1>7 DEF Tick, storeVars
  <1> HIDE DEF Goal
  <1>8. rec' = rec \/ Goal
    BY <1>2, <1>3, <1>4, <1>5, <1>6, <1>7 DEF Next
  <1> QED BY <1>8 DEF Goal

\* Once marked, an approval never changes hands: the marker is by itself enough
\* to stop a second claim, whatever happens to the write of the terminal state.
THEOREM MarkedStaysWithHolder == Spec => MarkedNeverReclaimed
  <1>1. ASSUME StoreInv, [Next]_storeVars
        PROVE  \A a \in Approvals : rec[a].marker # None => rec'[a].token = rec[a].token
    <2>1. rec \in [Approvals -> Record]
      BY <1>1 DEF StoreInv, StoreTypeOK
    <2> QED BY <1>1, <2>1, RecordStep DEF RecordChange
  <1> QED BY <1>1, StoreInvariant, PTL DEF Spec, MarkedNeverReclaimed

\* As effective_state shows it, every approval goes through the lifecycle of
\* ApprovalLifecycle: opened once, closed once, its verdict final.
THEOREM StoreImplementsLifecycle == Spec => ImplementsLifecycle
  <1> DEFINE v == [a \in Approvals |-> EffectiveState(rec[a])]
  <1>1. Init => Lifecycle!LifecycleInit
    BY DEF Init, Lifecycle!LifecycleInit, EffectiveState, AbsentRecord
  <1>2. ASSUME StoreInv, [Next]_storeVars
        PROVE  [Lifecycle!LifecycleNext]_v
    <2>1. rec \in [Approvals -> Record]
      BY <1>2 DEF StoreInv, StoreTypeOK
    <2>2. CASE rec' = rec
      BY <2>2
    <2>3. CASE rec' # rec
      <3>1. PICK a \in Approvals, r \in Record : RecordChange(a, r)
        BY <1>2, <2>3, RecordStep
      <3> DEFINE from == EffectiveState(rec[a])
                 to == EffectiveState(r)
      <3>2. v' = [v EXCEPT ![a] = to] /\ v[a] = from
        BY <2>1, <3>1 DEF RecordChange
      <3>3. \/ from = "absent" /\ to = "pending"
            \/ from = "pending" /\ to = "claimed"
            \/ from = "claimed" /\ to \in TerminalStates
            \/ from = to
        BY <3>1 DEF RecordChange, EffectiveState, TerminalStates, None
      <3>4. from = to => v' = v
        BY <3>2
      <3> HIDE DEF from, to
      <3>5. from = "absent" /\ to = "pending" => Lifecycle!Open(a)
        BY <3>2 DEF Lifecycle!Open, Lifecycle!Become
      <3>6. from = "pending" /\ to = "claimed" => Lifecycle!Take(a)
        BY <3>2 DEF Lifecycle!Take, Lifecycle!Become
      <3>7. from = "claimed" /\ to \in TerminalStates => Lifecycle!Close(a, to)
        BY <3>2 DEF Lifecycle!Close, Lifecycle!Become
      <3> QED BY <3>3, <3>4, <3>5, <3>6, <3>7 DEF Lifecycle!LifecycleNext
    <2> QED BY <2>2, <2>3
  <1> QED BY <1>1, <1>2, StoreInvariant, PTL
      DEF Spec, ImplementsLifecycle, Lifecycle!LifecycleSpec
================================================================================
