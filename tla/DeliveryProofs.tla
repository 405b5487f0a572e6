--------------------------- MODULE DeliveryProofs ---------------------------
(***************************************************************************)
(* Proofs about the external writes of a delivery: repeats are harmless,   *)
(* what is reported complete is whole, and the deliver stage implements    *)
(* the release contract.                                                   *)
(*                                                                         *)
(* DeliveryInv: an executor's claim is the one the row knows or an earlier *)
(* one (ClaimStands); the effects an executor has behind it are there for  *)
(* good (WorkStands); one that wrote after it lost its clearance is not    *)
(* about to write again (LateStands); no two share a claim (OneClaim); a   *)
(* comparison of the current release holds while the lock is kept          *)
(* (ComparisonHolds); and staging serves whole releases (CurrentIsWhole).  *)
(* The refinement shows of each step of an executor which step of the      *)
(* contract it is, or that it is none; what the contract alone implies, the *)
(* order of the effects and that they stay, is then true of the executors. *)
(***************************************************************************)
EXTENDS DeliveryEffects, TLAPS

-----------------------------------------------------------------------------
(* The inductive invariant *)

\* HoldsLease and Guard of an executor, as facts about its record.
Holds(e) ==
    /\ e.run \in Deliveries /\ delivery[e.run].open /\ delivery[e.run].lease = "live"
    /\ delivery[e.run].fence = e.fence /\ delivery[e.run].status \in {"running", "reconciling"}
Clear(e) == Holds(e) /\ delivery[e.run].status = "running"

\* The first n effects of an action are there for good.
EffectsReached(a, n) ==
    /\ n >= 1 => a \in forge.branches
    /\ n >= 2 => a \in forge.pulls
    /\ n >= 3 => Stored(ArtifactPaths(a))
    /\ n >= 4 => a \in staging.past /\ Stored(ReleasePaths(a))
    /\ n >= 5 => a \in forge.statuses

\* An executor's claim: it is the one the row knows, of the row's step, or
\* an earlier one.
ClaimStands(e) ==
    /\ e.run \in Deliveries /\ e.action \in ReleaseActions /\ e.fence <= delivery[e.run].fence
    /\ e.fence = delivery[e.run].fence =>
          /\ delivery[e.run].open /\ delivery[e.run].stage = e.stage
          /\ e.action = <<e.run, IF e.stage = "deliver" THEN delivery[e.run].step ELSE delivery[e.run].released>>

\* What an executor did is there.
WorkStands(e) ==
    /\ e.at <= LastEffect(e.stage) /\ EffectsReached(e.action, e.at - 1)
    /\ e.pc = "add" => EffectsReached(e.action, e.at)
    /\ e.outcome = "succeeded" => e.pc = "report" /\ e.at = LastEffect(e.stage) /\ EffectsReached(e.action, e.at)
    /\ e.pc = "write" /\ e.at = 3 =>
          e.file <= 2 /\ (e.file = 2 => files[<<"archive", e.action>>] = "full")
    /\ e.pc = "write" /\ e.at = 4 => /\ e.file >= 2 => files[<<"release_manifest", e.action>>] = "full"
                                     /\ e.file >= 3 => files[<<"source_tar", e.action>>] = "full"

\* A write was late at most once, and not before another is cleared.
LateStands(e) == e.late = 0 \/ (e.late = 1 /\ ~Clear(e) /\ e.pc # "write")

Stands(e) == IF e.pc = "idle" THEN e.late = 0 /\ e.run = None ELSE ClaimStands(e) /\ WorkStands(e) /\ LateStands(e)

\* No two executors have the same claim.
OneClaim ==
    \A x, y \in Executors :
        /\ executor[x].pc # "idle" /\ executor[y].pc # "idle"
        /\ executor[x].run = executor[y].run /\ executor[x].fence = executor[y].fence
        => x = y

\* Past the comparison with current.json the lock is held.
ComparisonHolds ==
    \A x \in Executors :
        executor[x].pc = "write" /\ executor[x].at = 4 /\ executor[x].file = 4 =>
            staging.lock = x /\ Replaceable(executor[x].action)

RowsStand ==
    \A r \in Deliveries :
        /\ delivery[r].stage = "deliver" <=> delivery[r].released = 0
        /\ delivery[r].open \/ delivery[r].stage = "verify_delivery" => delivery[r].step > 0
        /\ delivery[r].status = "completed" => delivery[r].released > 0 /\ EffectsReached(<<r, delivery[r].released>>, 5)

CurrentIsWhole == staging.current # None => EffectsReached(staging.current, 4)

DeliveryInv ==
    /\ DeliveryTypeOK /\ RowsStand /\ CurrentIsWhole /\ OneClaim /\ ComparisonHolds
    /\ \A x \in Executors : Stands(executor[x])

-----------------------------------------------------------------------------
(* What lasts *)

LEMMA PathsOf ==
    ASSUME NEW a \in ReleaseActions
    PROVE  {<<"archive", a>>, <<"manifest", a>>, <<"release_manifest", a>>, <<"source_tar", a>>} \subseteq Paths
<1>1. {ArtifactPaths(a)[1], ArtifactPaths(a)[2]} \subseteq Paths
    BY DEF Paths
<1>2. {ReleasePaths(a)[1], ReleasePaths(a)[2]} \subseteq Paths
    BY DEF Paths
<1> QED
    BY <1>1, <1>2 DEF ArtifactPaths, ReleasePaths

LEMMA BothFull ==
    ASSUME NEW f, NEW p, NEW q
    PROVE  (\A i \in 1 .. Len(<<p, q>>) : f[<<p, q>>[i]] = "full") <=> f[p] = "full" /\ f[q] = "full"
<1>1. Len(<<p, q>>) = 2 /\ <<p, q>>[1] = p /\ <<p, q>>[2] = q
    OBVIOUS
<1>2. 1 .. 2 = {1, 2}
    OBVIOUS
<1> QED
    BY <1>1, <1>2

LEMMA StoredFiles ==
    ASSUME NEW a
    PROVE  /\ Stored(ArtifactPaths(a)) <=> files[<<"archive", a>>] = "full" /\ files[<<"manifest", a>>] = "full"
           /\ Stored(ReleasePaths(a)) <=> files[<<"release_manifest", a>>] = "full" /\ files[<<"source_tar", a>>] = "full"
           /\ Stored(ArtifactPaths(a))' <=> files'[<<"archive", a>>] = "full" /\ files'[<<"manifest", a>>] = "full"
           /\ Stored(ReleasePaths(a))' <=> files'[<<"release_manifest", a>>] = "full" /\ files'[<<"source_tar", a>>] = "full"
BY BothFull DEF Stored, ArtifactPaths, ReleasePaths

Lasting ==
    /\ forge.branches \subseteq forge'.branches /\ forge.pulls \subseteq forge'.pulls
    /\ forge.statuses \subseteq forge'.statuses /\ staging.past \subseteq staging'.past
    /\ \A p \in Paths : files[p] = "full" => files'[p] = "full"

LEMMA ReachedStays ==
    ASSUME Lasting, NEW a \in ReleaseActions, NEW n, EffectsReached(a, n)
    PROVE  EffectsReached(a, n)'
<1>1. Stored(ArtifactPaths(a)) => Stored(ArtifactPaths(a))'
    BY StoredFiles, PathsOf DEF Lasting
<1>2. Stored(ReleasePaths(a)) => Stored(ReleasePaths(a))'
    BY StoredFiles, PathsOf DEF Lasting
<1> QED
    BY <1>1, <1>2 DEF EffectsReached, Lasting

\* A claim is the row's no more, or the row keeps what it says of it and the
\* guard of the claim does not come back.
Undisturbed(e) ==
    /\ delivery[e.run].fence <= delivery'[e.run].fence
    /\ e.fence = delivery'[e.run].fence =>
          /\ delivery'[e.run].fence = delivery[e.run].fence /\ delivery'[e.run].open
          /\ delivery'[e.run].stage = delivery[e.run].stage /\ delivery'[e.run].step = delivery[e.run].step
          /\ delivery'[e.run].released = delivery[e.run].released
          /\ delivery'[e.run].lease = "live" /\ delivery'[e.run].status = "running" =>
                delivery[e.run].lease = "live" /\ delivery[e.run].status = "running"

LEMMA StandsStays ==
    ASSUME DeliveryTypeOK, DeliveryTypeOK', Lasting, NEW e \in ExecutorState, Stands(e),
           e.pc # "idle" => Undisturbed(e)
    PROVE  Stands(e)'
<1>1. CASE e.pc = "idle"
    BY <1>1 DEF Stands
<1>2. CASE e.pc # "idle"
  <2>1. ClaimStands(e) /\ WorkStands(e) /\ LateStands(e) /\ Undisturbed(e)
      BY <1>2 DEF Stands
  <2>2. e.run \in Deliveries /\ e.action \in ReleaseActions /\ e.fence \in Nat
      BY <2>1 DEF ClaimStands, ExecutorState
  <2>3. delivery[e.run].fence \in Nat /\ delivery'[e.run].fence \in Nat
      BY <2>2 DEF DeliveryTypeOK, DeliveryRow
  <2>4. ClaimStands(e)'
      BY <2>1, <2>2, <2>3 DEF ClaimStands, Undisturbed
  <2>5. \A n : EffectsReached(e.action, n) => EffectsReached(e.action, n)'
      BY <2>2, ReachedStays
  <2>6. WorkStands(e)'
    <3>1. \A p \in {<<"archive", e.action>>, <<"manifest", e.action>>, <<"release_manifest", e.action>>, <<"source_tar", e.action>>} :
             files[p] = "full" => files'[p] = "full"
        BY <2>2, PathsOf DEF Lasting
    <3> QED
        BY <2>1, <2>5, <3>1 DEF WorkStands
  <2>7. ~Clear(e) => ~Clear(e)'
      BY <2>1, <2>2, <2>3 DEF Clear, Holds, Undisturbed, ClaimStands
  <2>8. LateStands(e)'
      BY <2>1, <2>7 DEF LateStands
  <2> QED
      BY <1>2, <2>4, <2>6, <2>8 DEF Stands
<1> QED
    BY <1>1, <1>2

-----------------------------------------------------------------------------
(* Steps of one executor *)

LEMMA KindOf ==
    ASSUME NEW x \in Executors, executor[x].at \in 1 .. 5
    PROVE  /\ Kind(x) = "forge_commit" <=> executor[x].at = 1
           /\ Kind(x) = "forge_pr" <=> executor[x].at = 2
           /\ Kind(x) = "artifact" <=> executor[x].at = 3
           /\ Kind(x) = "staging" <=> executor[x].at = 4
           /\ Kind(x) = "ci" <=> executor[x].at = 5
           /\ Kind(x) \in {"forge_commit", "forge_pr", "artifact", "staging", "ci"}
<1>1. executor[x].at \in {1, 2, 3, 4, 5}
    OBVIOUS
<1> QED
    BY <1>1 DEF Kind, Effects

\* One executor moves on; the rows stay, and so does the lock of another.
LEMMA ExecutorKeepsInv ==
    ASSUME DeliveryInv, NEW x \in Executors, NEW n \in ExecutorState,
           executor' = [executor EXCEPT ![x] = n], UNCHANGED delivery, Lasting,
           n.pc # "idle" => /\ executor[x].pc # "idle"
                            /\ n.run = executor[x].run /\ n.fence = executor[x].fence,
           Stands(n)', CurrentIsWhole',
           n.pc = "write" /\ n.at = 4 /\ n.file = 4 => staging'.lock = x /\ Replaceable(n.action)',
           \A y \in Executors : y # x /\ staging.lock = y => staging'.lock = y /\ staging'.current = staging.current,
           forge' \in [branches : SUBSET ReleaseActions, pulls : SUBSET ReleaseActions,
                       statuses : SUBSET ReleaseActions, base : {"accepted", "advanced"}],
           files' \in [Paths -> {"absent", "torn", "full"}],
           staging' \in [current : ReleaseActions \cup {None}, lock : Executors \cup {None}, past : SUBSET ReleaseActions],
           faults' \in 0 .. MaxDeliveryFaults
    PROVE  DeliveryInv'
<1>1. /\ executor' \in [Executors -> ExecutorState]
      /\ \A y \in Executors : executor'[y] = IF y = x THEN n ELSE executor[y]
    BY DEF DeliveryInv, DeliveryTypeOK
<1>2. DeliveryTypeOK'
    BY <1>1 DEF DeliveryInv, DeliveryTypeOK
<1>3. RowsStand'
  <2>1. ASSUME NEW r \in Deliveries, delivery[r].status = "completed"
        PROVE  EffectsReached(<<r, delivery[r].released>>, 5)'
    <3>1. <<r, delivery[r].released>> \in ReleaseActions
        BY <2>1, DeliveryAssumption
        DEF DeliveryInv, RowsStand, DeliveryTypeOK, DeliveryRow, ReleaseActions, DeliveryAssumption
    <3> QED
        BY <2>1, <3>1, ReachedStays DEF DeliveryInv, RowsStand
  <2> QED
      BY <2>1 DEF DeliveryInv, RowsStand
<1>4. OneClaim'
    BY <1>1 DEF DeliveryInv, OneClaim
<1>5. ComparisonHolds'
    BY <1>1 DEF DeliveryInv, ComparisonHolds, Replaceable
<1>6. \A y \in Executors : Stands(executor[y])'
  <2>1. ASSUME NEW y \in Executors, y # x PROVE Stands(executor[y])'
    <3>1. PICK e \in ExecutorState : e = executor[y] /\ Stands(e)
        BY DEF DeliveryInv, DeliveryTypeOK
    <3>2. e.pc # "idle" => Undisturbed(e)
      <4> SUFFICES ASSUME e.pc # "idle" PROVE Undisturbed(e)
          OBVIOUS
      <4>1. ClaimStands(e)
          BY <3>1 DEF Stands
      <4>2. delivery[e.run].fence \in Nat
          BY <4>1 DEF ClaimStands, DeliveryInv, DeliveryTypeOK, DeliveryRow
      <4> QED
          BY <4>1, <4>2 DEF ClaimStands, Undisturbed
    <3>3. Stands(e)'
        BY <1>2, <3>1, <3>2, StandsStays DEF DeliveryInv
    <3>4. executor'[y] = e
        BY <1>1, <2>1, <3>1
    <3> QED
        BY <3>3, <3>4 DEF Stands, ClaimStands, WorkStands, LateStands, Clear, Holds
  <2> QED
      BY <1>1, <2>1 DEF Stands, ClaimStands, WorkStands, LateStands, Clear, Holds
<1> QED
    BY <1>2, <1>3, <1>4, <1>5, <1>6 DEF DeliveryInv

\* The guards, as facts about the record.
LEMMA GuardIsClear ==
    ASSUME NEW x \in Executors
    PROVE  /\ HoldsLease(x) <=> Holds(executor[x])
           /\ Guard(x) <=> Clear(executor[x])
BY DEF HoldsLease, Guard, Holds, Clear

\* An executor in RunOne goes on with the same claim.
LEMMA ProgressKeepsInv ==
    ASSUME DeliveryInv, NEW x \in Executors, NEW e \in ExecutorState, e = executor[x], e.pc # "idle",
           NEW n \in ExecutorState, n.pc # "idle",
           n.run = e.run, n.fence = e.fence, n.action = e.action, n.stage = e.stage,
           \/ n.late = e.late /\ (n.pc = "write" => e.pc = "write" \/ Clear(e))
           \/ n.late = (IF Clear(e) THEN e.late ELSE e.late + 1) /\ e.pc = "write" /\ n.pc # "write",
           executor' = [executor EXCEPT ![x] = n], UNCHANGED delivery, Lasting, WorkStands(n)', CurrentIsWhole',
           n.pc = "write" /\ n.at = 4 /\ n.file = 4 => staging'.lock = x /\ Replaceable(n.action)',
           \A y \in Executors : y # x /\ staging.lock = y => staging'.lock = y /\ staging'.current = staging.current,
           forge' \in [branches : SUBSET ReleaseActions, pulls : SUBSET ReleaseActions,
                       statuses : SUBSET ReleaseActions, base : {"accepted", "advanced"}],
           files' \in [Paths -> {"absent", "torn", "full"}],
           staging' \in [current : ReleaseActions \cup {None}, lock : Executors \cup {None}, past : SUBSET ReleaseActions],
           faults' \in 0 .. MaxDeliveryFaults
    PROVE  DeliveryInv'
<1>1. ClaimStands(e) /\ LateStands(e)
    BY DEF DeliveryInv, Stands
<1>2. ClaimStands(n)'
    BY <1>1 DEF ClaimStands
<1>3. Clear(n)' <=> Clear(e)
    BY DEF Clear, Holds
<1>4. LateStands(n)'
    BY <1>1, <1>3 DEF LateStands
<1>5. Stands(n)'
    BY <1>2, <1>4 DEF Stands
<1> QED
    BY <1>5, ExecutorKeepsInv

\* Nothing outside the executor changes.
LEMMA LocalStepKeepsInv ==
    ASSUME DeliveryInv, NEW x \in Executors, NEW e \in ExecutorState, e = executor[x], e.pc # "idle",
           NEW n \in ExecutorState, n.pc # "idle",
           n.run = e.run, n.fence = e.fence, n.action = e.action, n.stage = e.stage, n.late = e.late,
           n.pc = "write" => e.pc = "write" \/ Clear(e), WorkStands(n),
           n.pc = "write" /\ n.at = 4 /\ n.file = 4 => staging.lock = x /\ Replaceable(n.action),
           executor' = [executor EXCEPT ![x] = n],
           UNCHANGED <<delivery, forge, files, staging>>, faults' \in 0 .. MaxDeliveryFaults
    PROVE  DeliveryInv'
<1>1. Lasting
    BY DEF Lasting
<1>2. WorkStands(n)' /\ CurrentIsWhole'
    BY DEF DeliveryInv, WorkStands, CurrentIsWhole, EffectsReached, Stored
<1>3. /\ forge' \in [branches : SUBSET ReleaseActions, pulls : SUBSET ReleaseActions,
                     statuses : SUBSET ReleaseActions, base : {"accepted", "advanced"}]
      /\ files' \in [Paths -> {"absent", "torn", "full"}]
      /\ staging' \in [current : ReleaseActions \cup {None}, lock : Executors \cup {None}, past : SUBSET ReleaseActions]
    BY DEF DeliveryInv, DeliveryTypeOK
<1>4. n.pc = "write" /\ n.at = 4 /\ n.file = 4 => staging'.lock = x /\ Replaceable(n.action)'
    BY DEF Replaceable
<1> QED
    BY <1>1, <1>2, <1>3, <1>4, ProgressKeepsInv

\* An executor gives up or dies; its lock goes with it.
LEMMA IdleKeepsInv ==
    ASSUME DeliveryInv, NEW x \in Executors, executor' = [executor EXCEPT ![x] = IdleExecutor],
           UNCHANGED <<delivery, forge>>, \A p \in Paths : files[p] = "full" => files'[p] = "full",
           files' \in [Paths -> {"absent", "torn", "full"}],
           staging' = staging \/ staging' = [staging EXCEPT !.lock = IF @ = x THEN None ELSE @],
           faults' \in 0 .. MaxDeliveryFaults
    PROVE  DeliveryInv'
<1> DEFINE n == IdleExecutor
<1>1. n \in ExecutorState /\ n.pc = "idle" /\ n.late = 0 /\ n.run = None
    BY DEF IdleExecutor, ExecutorState
<1> HIDE DEF n
<1>2. /\ staging' \in [current : ReleaseActions \cup {None}, lock : Executors \cup {None}, past : SUBSET ReleaseActions]
      /\ staging'.current = staging.current /\ staging'.past = staging.past
      /\ \A y \in Executors : y # x /\ staging.lock = y => staging'.lock = y
    BY DEF DeliveryInv, DeliveryTypeOK
<1>3. Lasting
    BY <1>2 DEF Lasting
<1>4. Stands(n)'
    BY <1>1 DEF Stands
<1>5. CurrentIsWhole'
    BY <1>2, <1>3, ReachedStays DEF DeliveryInv, CurrentIsWhole, DeliveryTypeOK
<1>6. forge' \in [branches : SUBSET ReleaseActions, pulls : SUBSET ReleaseActions,
                  statuses : SUBSET ReleaseActions, base : {"accepted", "advanced"}]
    BY DEF DeliveryInv, DeliveryTypeOK
<1> QED
    BY <1>1, <1>2, <1>3, <1>4, <1>5, <1>6, ExecutorKeepsInv DEF n

\* An attempt that ends with no effect says so.
LEMMA BlockedKeepsInv ==
    ASSUME DeliveryInv, NEW x \in Executors, NEW outcome \in {"failed", "blocked"}, executor[x].pc # "idle",
           Reports(x, outcome), UNCHANGED <<delivery, forge, files>>,
           staging' = staging \/ (staging.lock = x /\ staging' = [staging EXCEPT !.lock = None]),
           faults' \in 0 .. MaxDeliveryFaults
    PROVE  DeliveryInv'
<1>1. PICK e \in ExecutorState : e = executor[x] /\ WorkStands(e)
    BY DEF DeliveryInv, DeliveryTypeOK, Stands
<1> DEFINE n == [e EXCEPT !.pc = "report", !.outcome = outcome]
<1>2. executor' = [executor EXCEPT ![x] = n]
    BY <1>1 DEF Reports, Goes
<1>3. /\ n \in ExecutorState /\ n.pc = "report" /\ n.run = e.run /\ n.fence = e.fence /\ n.action = e.action
      /\ n.stage = e.stage /\ n.late = e.late /\ n.at = e.at /\ n.outcome = outcome
    BY <1>1 DEF ExecutorState
<1> HIDE DEF n
<1>4. /\ staging' \in [current : ReleaseActions \cup {None}, lock : Executors \cup {None}, past : SUBSET ReleaseActions]
      /\ staging'.current = staging.current /\ staging'.past = staging.past
      /\ \A y \in Executors : y # x /\ staging.lock = y => staging'.lock = y
    BY DEF DeliveryInv, DeliveryTypeOK
<1>5. Lasting
    BY <1>4 DEF Lasting
<1>6. WorkStands(n)'
    BY <1>1, <1>3, <1>4 DEF WorkStands, EffectsReached, Stored
<1>7. CurrentIsWhole'
    BY <1>4, <1>5, ReachedStays DEF DeliveryInv, CurrentIsWhole, DeliveryTypeOK
<1>8. /\ forge' \in [branches : SUBSET ReleaseActions, pulls : SUBSET ReleaseActions,
                     statuses : SUBSET ReleaseActions, base : {"accepted", "advanced"}]
      /\ files' \in [Paths -> {"absent", "torn", "full"}]
    BY DEF DeliveryInv, DeliveryTypeOK
<1> QED
    BY <1>1, <1>2, <1>3, <1>4, <1>5, <1>6, <1>7, <1>8, ProgressKeepsInv

LEMMA FaultsInBound ==
    ASSUME DeliveryInv, OneFault
    PROVE  faults' \in 0 .. MaxDeliveryFaults
BY DeliveryAssumption DEF DeliveryInv, DeliveryTypeOK, OneFault, DeliveryAssumption

\* What is read back is there, after what came before it.
LEMMA ObservedIsReached ==
    ASSUME DeliveryInv, NEW x \in Executors, NEW e \in ExecutorState, e = executor[x], e.pc # "idle",
           Observed(e.action, Kind(x))
    PROVE  EffectsReached(e.action, e.at)
<1>1. e.at \in {1, 2, 3, 4, 5} /\ EffectsReached(e.action, e.at - 1) /\ e.action \in ReleaseActions
  <2>1. e.at \in 1 .. 5
      BY DEF ExecutorState
  <2>2. ClaimStands(e) /\ WorkStands(e)
      BY DEF DeliveryInv, Stands
  <2> QED
      BY <2>1, <2>2 DEF ClaimStands, WorkStands
<1>2. /\ Kind(x) = "forge_commit" <=> e.at = 1
      /\ Kind(x) = "forge_pr" <=> e.at = 2
      /\ Kind(x) = "artifact" <=> e.at = 3
      /\ Kind(x) = "staging" <=> e.at = 4
      /\ Kind(x) = "ci" <=> e.at = 5
    BY <1>1, KindOf
<1>3. CASE e.at = 1
    BY <1>2, <1>3 DEF Observed, EffectsReached
<1>4. CASE e.at = 2
    BY <1>1, <1>2, <1>4 DEF Observed, EffectsReached
<1>5. CASE e.at = 3
    BY <1>1, <1>2, <1>5 DEF Observed, EffectsReached
<1>6. CASE e.at = 4
  <2>1. staging.current = e.action /\ staging.current # None
      BY <1>1, <1>2, <1>6, DeliveryAssumption DEF Observed, DeliveryAssumption
  <2> QED
      BY <1>6, <2>1 DEF DeliveryInv, CurrentIsWhole
<1>7. CASE e.at = 5
    BY <1>1, <1>2, <1>7 DEF Observed, EffectsReached
<1> QED
    BY <1>1, <1>3, <1>4, <1>5, <1>6, <1>7

\* Preparing, reading, reading back, recording, testing.
LEMMA PrepareKeepsInv ==
    ASSUME DeliveryInv, NEW x \in Executors, Prepare(x)
    PROVE  DeliveryInv'
<1>1. /\ executor[x].pc = "prepare" /\ UNCHANGED <<delivery, forge, files, staging, faults>>
      /\ faults' \in 0 .. MaxDeliveryFaults
    BY DEF Prepare, DeliveryInv, DeliveryTypeOK
<1>2. CASE Reports(x, "blocked")
    BY <1>1, <1>2, BlockedKeepsInv
<1>3. CASE Goes(x, [executor[x] EXCEPT !.pc = "read"])
  <2>1. PICK e \in ExecutorState : e = executor[x] /\ WorkStands(e)
      BY <1>1 DEF DeliveryInv, DeliveryTypeOK, Stands
  <2> DEFINE n == [e EXCEPT !.pc = "read"]
  <2>2. /\ n \in ExecutorState /\ n.pc = "read" /\ n.run = e.run /\ n.fence = e.fence /\ n.action = e.action
        /\ n.stage = e.stage /\ n.late = e.late /\ n.at = e.at /\ n.outcome = e.outcome
      BY DEF ExecutorState
  <2>3. executor' = [executor EXCEPT ![x] = n]
      BY <1>3, <2>1 DEF Goes
  <2> HIDE DEF n
  <2>4. WorkStands(n)
      BY <1>1, <2>1, <2>2 DEF WorkStands
  <2> QED
      BY <1>1, <2>1, <2>2, <2>3, <2>4, LocalStepKeepsInv
<1> QED
    BY <1>2, <1>3 DEF Prepare

LEMMA ReadEffectKeepsInv ==
    ASSUME DeliveryInv, NEW x \in Executors, ReadEffect(x)
    PROVE  DeliveryInv'
<1>1. /\ executor[x].pc = "read" /\ UNCHANGED <<delivery, forge, files, staging, faults>>
      /\ faults' \in 0 .. MaxDeliveryFaults
    BY DEF ReadEffect, DeliveryInv, DeliveryTypeOK
<1>2. PICK e \in ExecutorState : e = executor[x] /\ WorkStands(e)
    BY <1>1 DEF DeliveryInv, DeliveryTypeOK, Stands
<1>3. CASE Reports(x, "blocked")
    BY <1>1, <1>3, BlockedKeepsInv
<1>4. CASE Guard(x) /\ Goes(x, [executor[x] EXCEPT !.pc = "write", !.file = 1])
  <2>0. PICK first \in 1 .. 4 : first = 1
      OBVIOUS
  <2> DEFINE n == [e EXCEPT !.pc = "write", !.file = first]
  <2>1. /\ n \in ExecutorState /\ n.pc = "write" /\ n.run = e.run /\ n.fence = e.fence /\ n.action = e.action
        /\ n.stage = e.stage /\ n.late = e.late /\ n.at = e.at /\ n.outcome = e.outcome /\ n.file = first
      BY DEF ExecutorState
  <2>2. executor' = [executor EXCEPT ![x] = n]
      BY <1>2, <1>4, <2>0 DEF Goes
  <2> HIDE DEF n
  <2>3. WorkStands(n) /\ Clear(e) /\ n.file # 4
      BY <1>1, <1>2, <1>4, <2>0, <2>1, GuardIsClear DEF WorkStands
  <2> QED
      BY <1>1, <1>2, <2>1, <2>2, <2>3, LocalStepKeepsInv
<1>5. CASE Goes(x, [executor[x] EXCEPT !.pc = "back"])
  <2> DEFINE n == [e EXCEPT !.pc = "back"]
  <2>1. /\ n \in ExecutorState /\ n.pc = "back" /\ n.run = e.run /\ n.fence = e.fence /\ n.action = e.action
        /\ n.stage = e.stage /\ n.late = e.late /\ n.at = e.at /\ n.outcome = e.outcome
      BY DEF ExecutorState
  <2>2. executor' = [executor EXCEPT ![x] = n]
      BY <1>2, <1>5 DEF Goes
  <2> HIDE DEF n
  <2>3. WorkStands(n)
      BY <1>1, <1>2, <2>1 DEF WorkStands
  <2> QED
      BY <1>1, <1>2, <2>1, <2>2, <2>3, LocalStepKeepsInv
<1> QED
    BY <1>3, <1>4, <1>5 DEF ReadEffect

LEMMA WriteFailsKeepsInv ==
    ASSUME DeliveryInv, NEW x \in Executors, WriteFails(x)
    PROVE  DeliveryInv'
<1>1. executor[x].pc = "write" /\ UNCHANGED <<delivery, forge, files, staging>> /\ faults' \in 0 .. MaxDeliveryFaults
    BY FaultsInBound DEF WriteFails
<1>2. PICK e \in ExecutorState : e = executor[x] /\ WorkStands(e)
    BY <1>1 DEF DeliveryInv, DeliveryTypeOK, Stands
<1> DEFINE n == [e EXCEPT !.pc = "back"]
<1>3. /\ n \in ExecutorState /\ n.pc = "back" /\ n.run = e.run /\ n.fence = e.fence /\ n.action = e.action
      /\ n.stage = e.stage /\ n.late = e.late /\ n.at = e.at /\ n.outcome = e.outcome
    BY DEF ExecutorState
<1>4. executor' = [executor EXCEPT ![x] = n]
    BY <1>2 DEF WriteFails, Goes
<1> HIDE DEF n
<1>5. WorkStands(n)
    BY <1>1, <1>2, <1>3 DEF WorkStands
<1> QED
    BY <1>1, <1>2, <1>3, <1>4, <1>5, LocalStepKeepsInv

LEMMA ReadBackKeepsInv ==
    ASSUME DeliveryInv, NEW x \in Executors, ReadBack(x)
    PROVE  DeliveryInv'
<1>1. /\ executor[x].pc = "back" /\ UNCHANGED <<delivery, forge, files, staging, faults>>
      /\ faults' \in 0 .. MaxDeliveryFaults
    BY DEF ReadBack, DeliveryInv, DeliveryTypeOK
<1>2. PICK e \in ExecutorState : e = executor[x] /\ WorkStands(e)
    BY <1>1 DEF DeliveryInv, DeliveryTypeOK, Stands
<1>3. CASE Reports(x, "blocked")
    BY <1>1, <1>3, BlockedKeepsInv
<1>4. CASE Observed(executor[x].action, Kind(x)) /\ Goes(x, [executor[x] EXCEPT !.pc = "add"])
  <2> DEFINE n == [e EXCEPT !.pc = "add"]
  <2>1. /\ n \in ExecutorState /\ n.pc = "add" /\ n.run = e.run /\ n.fence = e.fence /\ n.action = e.action
        /\ n.stage = e.stage /\ n.late = e.late /\ n.at = e.at /\ n.outcome = e.outcome
      BY DEF ExecutorState
  <2>2. executor' = [executor EXCEPT ![x] = n]
      BY <1>2, <1>4 DEF Goes
  <2>3. EffectsReached(e.action, e.at)
      BY <1>1, <1>2, <1>4, ObservedIsReached
  <2> HIDE DEF n
  <2>4. WorkStands(n)
      BY <1>1, <1>2, <2>1, <2>3 DEF WorkStands
  <2> QED
      BY <1>1, <1>2, <2>1, <2>2, <2>4, LocalStepKeepsInv
<1> QED
    BY <1>3, <1>4 DEF ReadBack

LEMMA AddEffectKeepsInv ==
    ASSUME DeliveryInv, NEW x \in Executors, AddEffect(x)
    PROVE  DeliveryInv'
<1>1. /\ executor[x].pc = "add" /\ UNCHANGED <<delivery, forge, files, staging, faults>>
      /\ faults' \in 0 .. MaxDeliveryFaults
    BY DEF AddEffect, DeliveryInv, DeliveryTypeOK
<1>2. PICK e \in ExecutorState : e = executor[x] /\ WorkStands(e) /\ EffectsReached(e.action, e.at)
    BY <1>1 DEF DeliveryInv, DeliveryTypeOK, Stands, WorkStands
<1>3. e.at \in 1 .. 5 /\ LastEffect(e.stage) \in {4, 5} /\ e.at <= LastEffect(e.stage)
    BY <1>2 DEF ExecutorState, LastEffect, WorkStands
<1>4. CASE e.at = LastEffect(e.stage) /\ Reports(x, "succeeded")
  <2> DEFINE n == [e EXCEPT !.pc = "report", !.outcome = "succeeded"]
  <2>1. /\ n \in ExecutorState /\ n.pc = "report" /\ n.run = e.run /\ n.fence = e.fence /\ n.action = e.action
        /\ n.stage = e.stage /\ n.late = e.late /\ n.at = e.at /\ n.outcome = "succeeded"
      BY DEF ExecutorState
  <2>2. executor' = [executor EXCEPT ![x] = n]
      BY <1>2, <1>4 DEF Goes, Reports
  <2> HIDE DEF n
  <2>3. WorkStands(n)
      BY <1>1, <1>2, <1>4, <2>1 DEF WorkStands
  <2> QED
      BY <1>1, <1>2, <2>1, <2>2, <2>3, LocalStepKeepsInv
<1>5. CASE /\ e.at # LastEffect(e.stage)
           /\ Goes(x, [executor[x] EXCEPT !.pc = IF executor[x].at = 4 THEN "probe" ELSE "read", !.at = @ + 1])
  <2>1. PICK k \in 1 .. 5, pc \in {"probe", "read"} : k = e.at + 1 /\ pc = IF e.at = 4 THEN "probe" ELSE "read"
      BY <1>3, <1>5
  <2> DEFINE n == [e EXCEPT !.pc = pc, !.at = k]
  <2>2. /\ n \in ExecutorState /\ n.pc = pc /\ n.run = e.run /\ n.fence = e.fence /\ n.action = e.action
        /\ n.stage = e.stage /\ n.late = e.late /\ n.at = k /\ n.outcome = e.outcome
      BY DEF ExecutorState
  <2>3. executor' = [executor EXCEPT ![x] = n]
      BY <1>2, <1>5, <2>1 DEF Goes
  <2> HIDE DEF n
  <2>4. k - 1 = e.at /\ k <= LastEffect(e.stage)
      BY <1>3, <1>5, <2>1
  <2>5. WorkStands(n)
      BY <1>1, <1>2, <2>1, <2>2, <2>4 DEF WorkStands
  <2> QED
      BY <1>1, <1>2, <2>1, <2>2, <2>3, <2>5, LocalStepKeepsInv
<1> QED
    BY <1>2, <1>4, <1>5 DEF AddEffect

LEMMA ProbeKeepsInv ==
    ASSUME DeliveryInv, NEW x \in Executors, Probe(x)
    PROVE  DeliveryInv'
<1>1. /\ executor[x].pc = "probe" /\ UNCHANGED <<delivery, forge, files, staging>>
      /\ faults' \in 0 .. MaxDeliveryFaults
    BY FaultsInBound DEF Probe, DeliveryInv, DeliveryTypeOK
<1>2. PICK e \in ExecutorState : e = executor[x] /\ WorkStands(e)
    BY <1>1 DEF DeliveryInv, DeliveryTypeOK, Stands
<1>3. CASE Reports(x, "failed")
    BY <1>1, <1>3, BlockedKeepsInv
<1>4. CASE Goes(x, [executor[x] EXCEPT !.pc = "read"])
  <2> DEFINE n == [e EXCEPT !.pc = "read"]
  <2>1. /\ n \in ExecutorState /\ n.pc = "read" /\ n.run = e.run /\ n.fence = e.fence /\ n.action = e.action
        /\ n.stage = e.stage /\ n.late = e.late /\ n.at = e.at /\ n.outcome = e.outcome
      BY DEF ExecutorState
  <2>2. executor' = [executor EXCEPT ![x] = n]
      BY <1>2, <1>4 DEF Goes
  <2> HIDE DEF n
  <2>3. WorkStands(n)
      BY <1>1, <1>2, <2>1 DEF WorkStands
  <2> QED
      BY <1>1, <1>2, <2>1, <2>2, <2>3, LocalStepKeepsInv
<1> QED
    BY <1>3, <1>4 DEF Probe

\* An executor that lost its lease leaves; one that dies leaves as well.
LEMMA LeaveKeepsInv ==
    ASSUME DeliveryInv, NEW x \in Executors, LeaveDelivery(x) \/ CrashDelivery(x) \/ TearFile(x)
    PROVE  DeliveryInv'
<1>1. /\ executor' = [executor EXCEPT ![x] = IdleExecutor] /\ UNCHANGED <<delivery, forge>>
      /\ faults' \in 0 .. MaxDeliveryFaults
      /\ staging' = staging \/ staging' = [staging EXCEPT !.lock = IF @ = x THEN None ELSE @]
    BY FaultsInBound DEF LeaveDelivery, CrashDelivery, TearFile, Goes, DeliveryInv, DeliveryTypeOK
<1>2. UNCHANGED files \/ \E path : files[path] = "absent" /\ files' = [files EXCEPT ![path] = "torn"]
    BY DEF LeaveDelivery, CrashDelivery, TearFile
<1>3. /\ \A p \in Paths : files[p] = "full" => files'[p] = "full"
      /\ files' \in [Paths -> {"absent", "torn", "full"}]
    BY <1>2 DEF DeliveryInv, DeliveryTypeOK
<1> QED
    BY <1>1, <1>3, IdleKeepsInv

-----------------------------------------------------------------------------
(* Writes *)

LEMMA CurrentStays ==
    ASSUME DeliveryInv, Lasting, staging'.current = staging.current
    PROVE  CurrentIsWhole'
BY ReachedStays DEF DeliveryInv, CurrentIsWhole, DeliveryTypeOK

\* A write that landed: late at most once.
LEMMA WroteKeepsInv ==
    ASSUME DeliveryInv, NEW x \in Executors, executor[x].pc = "write", Wrote(x),
           UNCHANGED <<delivery, faults>>, Lasting, CurrentIsWhole',
           \A y \in Executors : y # x /\ staging.lock = y => staging'.lock = y /\ staging'.current = staging.current,
           forge' \in [branches : SUBSET ReleaseActions, pulls : SUBSET ReleaseActions,
                       statuses : SUBSET ReleaseActions, base : {"accepted", "advanced"}],
           files' \in [Paths -> {"absent", "torn", "full"}],
           staging' \in [current : ReleaseActions \cup {None}, lock : Executors \cup {None}, past : SUBSET ReleaseActions]
    PROVE  DeliveryInv'
<1>1. PICK e \in ExecutorState : e = executor[x] /\ WorkStands(e) /\ e.action \in ReleaseActions
    BY DEF DeliveryInv, DeliveryTypeOK, Stands, ClaimStands
<1>2. PICK k \in Nat : k = IF Clear(e) THEN e.late ELSE e.late + 1
    BY DEF ExecutorState
<1> DEFINE n == [e EXCEPT !.pc = "back", !.late = k]
<1>3. /\ n \in ExecutorState /\ n.pc = "back" /\ n.run = e.run /\ n.fence = e.fence /\ n.action = e.action
      /\ n.stage = e.stage /\ n.late = k /\ n.at = e.at /\ n.outcome = e.outcome
    BY DEF ExecutorState
<1>4. executor' = [executor EXCEPT ![x] = n]
    BY <1>1, <1>2, GuardIsClear DEF Wrote, Goes
<1> HIDE DEF n
<1>5. WorkStands(n)'
  <2>1. \A i : EffectsReached(e.action, i) => EffectsReached(e.action, i)'
      BY <1>1, ReachedStays
  <2> QED
      BY <1>1, <1>3, <2>1 DEF WorkStands
<1>6. faults' \in 0 .. MaxDeliveryFaults
    BY DEF DeliveryInv, DeliveryTypeOK
<1>7. /\ n.late = (IF Clear(e) THEN e.late ELSE e.late + 1) /\ e.pc = "write" /\ n.pc # "write"
      /\ n.pc # "idle" /\ e.pc # "idle"
    BY <1>1, <1>2, <1>3
<1> QED
    BY <1>1, <1>3, <1>4, <1>5, <1>6, <1>7, ProgressKeepsInv

LEMMA ForgeWritesKeepInv ==
    ASSUME DeliveryInv, NEW x \in Executors, PushBranch(x) \/ CreatePull(x) \/ PostStatus(x)
    PROVE  DeliveryInv'
<1>1. executor[x].pc = "write" /\ Wrote(x) /\ UNCHANGED <<delivery, files, staging, faults>>
    BY DEF PushBranch, CreatePull, PostStatus
<1>2. executor[x].action \in ReleaseActions
    BY <1>1 DEF DeliveryInv, Stands, ClaimStands
<1>3. /\ forge' \in [branches : SUBSET ReleaseActions, pulls : SUBSET ReleaseActions,
                     statuses : SUBSET ReleaseActions, base : {"accepted", "advanced"}]
      /\ forge.branches \subseteq forge'.branches /\ forge.pulls \subseteq forge'.pulls
      /\ forge.statuses \subseteq forge'.statuses
    BY <1>2 DEF PushBranch, CreatePull, PostStatus, DeliveryInv, DeliveryTypeOK
<1>4. Lasting
    BY <1>1, <1>3 DEF Lasting
<1>5. CurrentIsWhole'
    BY <1>1, <1>4, CurrentStays
<1> QED
    BY <1>1, <1>3, <1>4, <1>5, WroteKeepsInv DEF DeliveryInv, DeliveryTypeOK

\* immutableFile leaves the file whole, and every other as it was.
LEMMA FileIsWhole ==
    ASSUME DeliveryInv, NEW path \in Paths, files[path] # "torn",
           files' = IF ImmutableFile(path) THEN [files EXCEPT ![path] = "full"] ELSE files
    PROVE  /\ files' \in [Paths -> {"absent", "torn", "full"}] /\ files'[path] = "full"
           /\ \A p \in Paths : p # path => files'[p] = files[p]
           /\ \A p \in Paths : files[p] = "full" => files'[p] = "full"
BY DEF DeliveryInv, DeliveryTypeOK, ImmutableFile

LEMMA StoreArtifactKeepsInv ==
    ASSUME DeliveryInv, NEW x \in Executors, StoreArtifact(x)
    PROVE  DeliveryInv'
<1>1. /\ executor[x].pc = "write" /\ Kind(x) = "artifact" /\ UNCHANGED <<delivery, forge, staging, faults>>
      /\ faults' \in 0 .. MaxDeliveryFaults
    BY DEF StoreArtifact, DeliveryInv, DeliveryTypeOK
<1>2. PICK e \in ExecutorState : e = executor[x] /\ WorkStands(e) /\ e.action \in ReleaseActions
    BY <1>1 DEF DeliveryInv, DeliveryTypeOK, Stands, ClaimStands
<1>3. e.at = 3 /\ e.file \in {1, 2}
  <2>1. e.at \in 1 .. 5 /\ e.file \in 1 .. 4
      BY DEF ExecutorState
  <2>2. e.at = 3
      BY <1>1, <1>2, <2>1, KindOf
  <2> QED
      BY <1>1, <1>2, <2>1, <2>2 DEF WorkStands
<1> DEFINE path == ArtifactPaths(e.action)[e.file]
<1>4. path \in Paths /\ (e.file = 1 => path = <<"archive", e.action>>)
  <2>1. <<<<"archive", e.action>>, <<"manifest", e.action>>>>[1] = <<"archive", e.action>>
      OBVIOUS
  <2>2. <<<<"archive", e.action>>, <<"manifest", e.action>>>>[2] = <<"manifest", e.action>>
      OBVIOUS
  <2> QED
      BY <1>2, <1>3, <2>1, <2>2, PathsOf DEF ArtifactPaths
<1> HIDE DEF path
<1>5. CASE Reports(x, "blocked") /\ UNCHANGED files
    BY <1>1, <1>5, BlockedKeepsInv
<1>6. CASE /\ files[path] # "torn"
           /\ files' = IF ImmutableFile(path) THEN [files EXCEPT ![path] = "full"] ELSE files
           /\ IF e.file = 1 THEN Goes(x, [e EXCEPT !.file = 2]) ELSE Wrote(x)
  <2>1. /\ files' \in [Paths -> {"absent", "torn", "full"}] /\ files'[path] = "full"
        /\ \A p \in Paths : files[p] = "full" => files'[p] = "full"
      BY <1>4, <1>6, FileIsWhole
  <2>2. Lasting
      BY <1>1, <2>1 DEF Lasting
  <2>3. CurrentIsWhole'
      BY <1>1, <2>2, CurrentStays
  <2>4. /\ forge' \in [branches : SUBSET ReleaseActions, pulls : SUBSET ReleaseActions,
                       statuses : SUBSET ReleaseActions, base : {"accepted", "advanced"}]
        /\ staging' \in [current : ReleaseActions \cup {None}, lock : Executors \cup {None}, past : SUBSET ReleaseActions]
      BY <1>1 DEF DeliveryInv, DeliveryTypeOK
  <2>5. CASE e.file # 1
      BY <1>1, <1>6, <2>1, <2>2, <2>3, <2>4, <2>5, WroteKeepsInv
  <2>6. CASE e.file = 1
    <3>1. PICK second \in 1 .. 4 : second = 2
        OBVIOUS
    <3> DEFINE n == [e EXCEPT !.file = second]
    <3>2. /\ n \in ExecutorState /\ n.pc = e.pc /\ n.run = e.run /\ n.fence = e.fence /\ n.action = e.action
          /\ n.stage = e.stage /\ n.late = e.late /\ n.at = e.at /\ n.outcome = e.outcome /\ n.file = second
        BY DEF ExecutorState
    <3>3. executor' = [executor EXCEPT ![x] = n]
        BY <1>6, <2>6, <3>1 DEF Goes
    <3> HIDE DEF n
    <3>4. WorkStands(n)'
      <4>1. \A i : EffectsReached(e.action, i) => EffectsReached(e.action, i)'
          BY <1>2, <2>2, ReachedStays
      <4>2. files'[<<"archive", e.action>>] = "full"
          BY <1>4, <2>1, <2>6
      <4> QED
          BY <1>1, <1>2, <1>3, <3>1, <3>2, <4>1, <4>2 DEF WorkStands
    <3>5. n.pc # "idle" /\ n.at # 4
        BY <1>1, <1>2, <1>3, <3>2
    <3> QED
        BY <1>1, <1>2, <2>1, <2>2, <2>3, <2>4, <3>2, <3>3, <3>4, <3>5, ProgressKeepsInv
  <2> QED
      BY <2>5, <2>6
<1> QED
    BY <1>2, <1>5, <1>6 DEF StoreArtifact, path

LEMMA LockStagingKeepsInv ==
    ASSUME DeliveryInv, NEW x \in Executors, LockStaging(x)
    PROVE  DeliveryInv'
<1>1. /\ executor[x].pc = "write" /\ Kind(x) = "staging" /\ executor[x].file < 4
      /\ UNCHANGED <<delivery, forge, files, faults>> /\ faults' \in 0 .. MaxDeliveryFaults
    BY DEF LockStaging, DeliveryInv, DeliveryTypeOK
<1>2. CASE Reports(x, "blocked") /\ UNCHANGED staging
    BY <1>1, <1>2, BlockedKeepsInv
<1>3. CASE LockFree /\ staging' = [staging EXCEPT !.lock = x] /\ UNCHANGED executor
  <2>1. PICK e \in ExecutorState : e = executor[x] /\ WorkStands(e)
      BY <1>1 DEF DeliveryInv, DeliveryTypeOK, Stands
  <2>2. /\ staging' \in [current : ReleaseActions \cup {None}, lock : Executors \cup {None}, past : SUBSET ReleaseActions]
        /\ staging'.current = staging.current /\ staging'.past = staging.past
      BY <1>3 DEF DeliveryInv, DeliveryTypeOK
  <2>3. \A y \in Executors : staging.lock # y
      BY <1>3, DeliveryAssumption DEF LockFree, DeliveryAssumption
  <2>4. executor' = [executor EXCEPT ![x] = e]
      BY <1>3, <2>1 DEF DeliveryInv, DeliveryTypeOK
  <2>5. Lasting
      BY <1>1, <2>2 DEF Lasting
  <2>6. WorkStands(e)'
      BY <1>1, <2>1, <2>2 DEF WorkStands, EffectsReached, Stored
  <2>7. CurrentIsWhole'
      BY <2>2, <2>5, CurrentStays
  <2>8. e.file # 4
      BY <1>1, <2>1
  <2>9. /\ forge' \in [branches : SUBSET ReleaseActions, pulls : SUBSET ReleaseActions,
                       statuses : SUBSET ReleaseActions, base : {"accepted", "advanced"}]
        /\ files' \in [Paths -> {"absent", "torn", "full"}]
      BY <1>1 DEF DeliveryInv, DeliveryTypeOK
  <2> QED
      BY <1>1, <2>1, <2>2, <2>3, <2>4, <2>5, <2>6, <2>7, <2>8, <2>9, ProgressKeepsInv
<1> QED
    BY <1>2, <1>3 DEF LockStaging

LEMMA StoreReleaseKeepsInv ==
    ASSUME DeliveryInv, NEW x \in Executors, StoreRelease(x)
    PROVE  DeliveryInv'
<1>1. /\ executor[x].pc = "write" /\ Kind(x) = "staging" /\ executor[x].file < 3 /\ staging.lock = x
      /\ UNCHANGED <<delivery, forge, faults>> /\ faults' \in 0 .. MaxDeliveryFaults
    BY DEF StoreRelease, DeliveryInv, DeliveryTypeOK
<1>2. PICK e \in ExecutorState : e = executor[x] /\ WorkStands(e) /\ e.action \in ReleaseActions
    BY <1>1 DEF DeliveryInv, DeliveryTypeOK, Stands, ClaimStands
<1>3. e.at = 4 /\ e.file \in {1, 2}
  <2>1. e.at \in 1 .. 5 /\ e.file \in 1 .. 4
      BY DEF ExecutorState
  <2> QED
      BY <1>1, <1>2, <2>1, KindOf
<1> DEFINE path == ReleasePaths(e.action)[e.file]
<1>4. /\ path \in Paths /\ (e.file = 1 => path = <<"release_manifest", e.action>>)
      /\ e.file = 2 => path = <<"source_tar", e.action>>
  <2>1. <<<<"release_manifest", e.action>>, <<"source_tar", e.action>>>>[1] = <<"release_manifest", e.action>>
      OBVIOUS
  <2>2. <<<<"release_manifest", e.action>>, <<"source_tar", e.action>>>>[2] = <<"source_tar", e.action>>
      OBVIOUS
  <2> QED
      BY <1>2, <1>3, <2>1, <2>2, PathsOf DEF ReleasePaths
<1> HIDE DEF path
<1>5. CASE Reports(x, "blocked") /\ UNCHANGED files /\ staging' = [staging EXCEPT !.lock = None]
    BY <1>1, <1>5, BlockedKeepsInv
<1>6. CASE /\ files[path] # "torn" /\ UNCHANGED staging
           /\ files' = IF ImmutableFile(path) THEN [files EXCEPT ![path] = "full"] ELSE files
           /\ Goes(x, [e EXCEPT !.file = @ + 1])
  <2>1. /\ files' \in [Paths -> {"absent", "torn", "full"}] /\ files'[path] = "full"
        /\ \A p \in Paths : files[p] = "full" => files'[p] = "full"
      BY <1>4, <1>6, FileIsWhole
  <2>2. Lasting
      BY <1>1, <1>6, <2>1 DEF Lasting
  <2>3. CurrentIsWhole'
      BY <1>6, <2>2, CurrentStays
  <2>4. /\ forge' \in [branches : SUBSET ReleaseActions, pulls : SUBSET ReleaseActions,
                       statuses : SUBSET ReleaseActions, base : {"accepted", "advanced"}]
        /\ staging' \in [current : ReleaseActions \cup {None}, lock : Executors \cup {None}, past : SUBSET ReleaseActions]
      BY <1>1, <1>6 DEF DeliveryInv, DeliveryTypeOK
  <2>5. PICK next \in 1 .. 4 : next = e.file + 1 /\ next < 4
      BY <1>3
  <2> DEFINE n == [e EXCEPT !.file = next]
  <2>6. /\ n \in ExecutorState /\ n.pc = e.pc /\ n.run = e.run /\ n.fence = e.fence /\ n.action = e.action
        /\ n.stage = e.stage /\ n.late = e.late /\ n.at = e.at /\ n.outcome = e.outcome /\ n.file = next
      BY DEF ExecutorState
  <2>7. executor' = [executor EXCEPT ![x] = n]
      BY <1>6, <2>5 DEF Goes
  <2> HIDE DEF n
  <2>8. WorkStands(n)'
    <3>1. \A i : EffectsReached(e.action, i) => EffectsReached(e.action, i)'
        BY <1>2, <2>2, ReachedStays
    <3>2. files'[<<"release_manifest", e.action>>] = "full"
      <4>1. e.file = 2 => files[<<"release_manifest", e.action>>] = "full"
          BY <1>1, <1>2, <1>3 DEF WorkStands
      <4> QED
          BY <1>2, <1>3, <1>4, <2>1, <4>1, PathsOf
    <3>3. next >= 3 => files'[<<"source_tar", e.action>>] = "full"
        BY <1>3, <1>4, <2>1, <2>5
    <3> QED
        BY <1>1, <1>2, <1>3, <2>6, <3>1, <3>2, <3>3 DEF WorkStands
  <2>9. n.pc # "idle" /\ n.file # 4
      BY <1>1, <1>2, <2>5, <2>6
  <2> QED
      BY <1>1, <1>2, <1>6, <2>1, <2>2, <2>3, <2>4, <2>6, <2>7, <2>8, <2>9, ProgressKeepsInv
<1> QED
    BY <1>2, <1>5, <1>6 DEF StoreRelease, path

LEMMA CompareReleaseKeepsInv ==
    ASSUME DeliveryInv, NEW x \in Executors, CompareRelease(x)
    PROVE  DeliveryInv'
<1>1. /\ executor[x].pc = "write" /\ Kind(x) = "staging" /\ executor[x].file = 3 /\ staging.lock = x
      /\ UNCHANGED <<delivery, forge, files, faults>> /\ faults' \in 0 .. MaxDeliveryFaults
    BY DEF CompareRelease, DeliveryInv, DeliveryTypeOK
<1>2. CASE Reports(x, "blocked") /\ staging' = [staging EXCEPT !.lock = None]
    BY <1>1, <1>2, BlockedKeepsInv
<1>3. CASE Replaceable(executor[x].action) /\ Goes(x, [executor[x] EXCEPT !.file = 4]) /\ UNCHANGED staging
  <2>1. PICK e \in ExecutorState : e = executor[x] /\ WorkStands(e)
      BY <1>1 DEF DeliveryInv, DeliveryTypeOK, Stands
  <2>2. PICK last \in 1 .. 4 : last = 4
      OBVIOUS
  <2> DEFINE n == [e EXCEPT !.file = last]
  <2>3. /\ n \in ExecutorState /\ n.pc = e.pc /\ n.run = e.run /\ n.fence = e.fence /\ n.action = e.action
        /\ n.stage = e.stage /\ n.late = e.late /\ n.at = e.at /\ n.outcome = e.outcome /\ n.file = last
      BY DEF ExecutorState
  <2>4. executor' = [executor EXCEPT ![x] = n]
      BY <1>3, <2>1, <2>2 DEF Goes
  <2> HIDE DEF n
  <2>5. e.at = 4
    <3>1. e.at \in 1 .. 5
        BY DEF ExecutorState
    <3> QED
        BY <1>1, <2>1, <3>1, KindOf
  <2>6. WorkStands(n)
      BY <1>1, <2>1, <2>2, <2>3, <2>5 DEF WorkStands
  <2> QED
      BY <1>1, <1>3, <2>1, <2>3, <2>4, <2>6, LocalStepKeepsInv
<1> QED
    BY <1>2, <1>3 DEF CompareRelease

LEMMA SelectReleaseKeepsInv ==
    ASSUME DeliveryInv, NEW x \in Executors, SelectRelease(x)
    PROVE  /\ DeliveryInv'
           /\ Replaceable(executor[x].action) /\ Stored(ArtifactPaths(executor[x].action))
           /\ executor[x].action \in ReleaseActions
<1>1. /\ executor[x].pc = "write" /\ Kind(x) = "staging" /\ executor[x].file = 4 /\ Wrote(x)
      /\ UNCHANGED <<delivery, forge, files, faults>>
    BY DEF SelectRelease
<1>2. PICK e \in ExecutorState : e = executor[x] /\ WorkStands(e) /\ e.action \in ReleaseActions
    BY <1>1 DEF DeliveryInv, DeliveryTypeOK, Stands, ClaimStands
<1>3. e.at = 4 /\ e.file = 4 /\ staging.lock = x /\ Replaceable(e.action)
  <2>1. e.at \in 1 .. 5
      BY DEF ExecutorState
  <2>2. e.at = 4
      BY <1>1, <1>2, <2>1, KindOf
  <2> QED
      BY <1>1, <1>2, <2>2 DEF DeliveryInv, ComparisonHolds
<1>4. EffectsReached(e.action, 3) /\ Stored(ReleasePaths(e.action))
  <2>1. files[<<"release_manifest", e.action>>] = "full" /\ files[<<"source_tar", e.action>>] = "full"
      BY <1>1, <1>2, <1>3 DEF WorkStands
  <2>2. e.at - 1 = 3
      BY <1>3
  <2> QED
      BY <1>2, <2>1, <2>2, StoredFiles DEF WorkStands
<1>5. /\ staging'.current = e.action /\ staging'.past = staging.past \cup {e.action} /\ staging'.lock = None
      /\ staging' \in [current : ReleaseActions \cup {None}, lock : Executors \cup {None}, past : SUBSET ReleaseActions]
    BY <1>2 DEF SelectRelease, DeliveryInv, DeliveryTypeOK
<1>6. Lasting
    BY <1>1, <1>5 DEF Lasting
<1>7. CurrentIsWhole'
    BY <1>1, <1>4, <1>5 DEF CurrentIsWhole, EffectsReached, Stored
<1>8. \A y \in Executors : y # x => staging.lock # y
    BY <1>3
<1>9. /\ forge' \in [branches : SUBSET ReleaseActions, pulls : SUBSET ReleaseActions,
                     statuses : SUBSET ReleaseActions, base : {"accepted", "advanced"}]
      /\ files' \in [Paths -> {"absent", "torn", "full"}]
    BY <1>1 DEF DeliveryInv, DeliveryTypeOK
<1>10. DeliveryInv'
    BY <1>1, <1>5, <1>6, <1>7, <1>8, <1>9, WroteKeepsInv
<1> QED
    BY <1>2, <1>3, <1>4, <1>10 DEF EffectsReached

-----------------------------------------------------------------------------
(* Steps that write a run's row *)

\* What a row has to keep for the executor whose claim it knows.
KeepsClaim(old, row) ==
    /\ row.open = old.open /\ row.stage = old.stage /\ row.step = old.step /\ row.released = old.released
    /\ row.lease = "live" /\ row.status = "running" => old.lease = "live" /\ old.status = "running"

RowIsSound(r, row) ==
    /\ row.stage = "deliver" <=> row.released = 0
    /\ row.open \/ row.stage = "verify_delivery" => row.step > 0
    /\ row.status = "completed" => row.released > 0 /\ EffectsReached(<<r, row.released>>, 5)

LEMMA RowKeepsInv ==
    ASSUME DeliveryInv, NEW r \in Deliveries, NEW row \in DeliveryRow, delivery' = [delivery EXCEPT ![r] = row],
           UNCHANGED <<forge, files, staging>>, faults' \in 0 .. MaxDeliveryFaults,
           RowIsSound(r, row), delivery[r].fence <= row.fence,
           executor' \in [Executors -> ExecutorState], OneClaim',
           \A y \in Executors :
               \/ /\ executor'[y] = executor[y]
                  /\ executor[y].pc # "idle" /\ executor[y].run = r /\ executor[y].fence = row.fence =>
                        row.fence = delivery[r].fence /\ KeepsClaim(delivery[r], row)
               \/ Stands(executor[y])' /\ executor'[y].pc # "write"
    PROVE  DeliveryInv'
<1>1. /\ delivery' \in [Deliveries -> DeliveryRow] /\ delivery'[r] = row
      /\ \A q \in Deliveries : q # r => delivery'[q] = delivery[q]
    BY DEF DeliveryInv, DeliveryTypeOK
<1>2. DeliveryTypeOK'
    BY <1>1 DEF DeliveryInv, DeliveryTypeOK
<1>3. Lasting
    BY DEF Lasting
<1>4. RowsStand'
  <2>1. \A q \in Deliveries : RowIsSound(q, delivery[q])
      BY DEF DeliveryInv, RowsStand, RowIsSound
  <2>2. \A a, n : EffectsReached(a, n)' <=> EffectsReached(a, n)
      BY DEF EffectsReached, Stored
  <2> QED
      BY <1>1, <2>1, <2>2 DEF RowsStand, RowIsSound
<1>5. CurrentIsWhole'
    BY DEF DeliveryInv, CurrentIsWhole, EffectsReached, Stored
<1>6. ComparisonHolds'
    BY DEF DeliveryInv, ComparisonHolds, Replaceable
<1>7. ASSUME NEW y \in Executors PROVE Stands(executor[y])'
  <2>1. CASE Stands(executor[y])' /\ executor'[y].pc # "write"
      BY <2>1
  <2>2. CASE /\ executor'[y] = executor[y]
             /\ executor[y].pc # "idle" /\ executor[y].run = r /\ executor[y].fence = row.fence =>
                   row.fence = delivery[r].fence /\ KeepsClaim(delivery[r], row)
    <3>1. PICK e \in ExecutorState : e = executor[y] /\ Stands(e)
        BY DEF DeliveryInv, DeliveryTypeOK
    <3>2. ASSUME e.pc # "idle" PROVE Undisturbed(e)
      <4>1. ClaimStands(e)
          BY <3>1, <3>2 DEF Stands
      <4>2. e.run \in Deliveries /\ delivery[e.run].fence \in Nat /\ delivery'[e.run].fence \in Nat
          BY <1>1, <4>1 DEF ClaimStands, DeliveryInv, DeliveryTypeOK, DeliveryRow
      <4>3. CASE e.run # r
        <5>1. delivery'[e.run] = delivery[e.run]
            BY <1>1, <4>2, <4>3
        <5> QED
            BY <4>1, <4>2, <5>1 DEF ClaimStands, Undisturbed
      <4>4. CASE e.run = r
        <5>1. e.fence = row.fence =>
                 row.fence = delivery[r].fence /\ KeepsClaim(delivery[r], row) /\ delivery[r].open
            BY <2>2, <3>1, <3>2, <4>1, <4>4 DEF ClaimStands
        <5> QED
            BY <1>1, <4>4, <5>1 DEF Undisturbed, KeepsClaim
      <4> QED
          BY <4>3, <4>4
    <3>3. Stands(e)'
        BY <1>2, <1>3, <3>1, <3>2, StandsStays DEF DeliveryInv
    <3>4. executor'[y] = e
        BY <2>2, <3>1
    <3> QED
        BY <3>3, <3>4 DEF Stands, ClaimStands, WorkStands, LateStands, Clear, Holds
  <2> QED
      BY <2>1, <2>2
<1> QED
    BY <1>2, <1>4, <1>5, <1>6, <1>7 DEF DeliveryInv

\* The row of a run and what its invariant says of it.
LEMMA RowOf ==
    ASSUME DeliveryInv, NEW r \in Deliveries
    PROVE  /\ delivery[r] \in DeliveryRow /\ RowIsSound(r, delivery[r])
           /\ executor \in [Executors -> ExecutorState] /\ OneClaim
           /\ \A y \in Executors : executor[y].pc # "idle" /\ executor[y].run = r =>
                 executor[y].fence \in Nat /\ executor[y].fence <= delivery[r].fence
<1>1. delivery[r] \in DeliveryRow /\ RowIsSound(r, delivery[r]) /\ OneClaim /\ executor \in [Executors -> ExecutorState]
    BY DEF DeliveryInv, DeliveryTypeOK, RowsStand, RowIsSound
<1>2. ASSUME NEW y \in Executors, executor[y].pc # "idle", executor[y].run = r
      PROVE  executor[y].fence \in Nat /\ executor[y].fence <= delivery[r].fence
  <2>1. executor[y] \in ExecutorState /\ ClaimStands(executor[y])
      BY <1>1, <1>2 DEF DeliveryInv, Stands
  <2> QED
      BY <1>2, <2>1 DEF ExecutorState, ClaimStands
<1> QED
    BY <1>1, <1>2

\* Leases that run out and owner decisions write the row only.
LEMMA OwnerKeepsInv ==
    ASSUME DeliveryInv, NEW r \in Deliveries,
           DeliveryLeaseExpires(r) \/ StopDelivery(r) \/ ResumeDelivery(r)
    PROVE  DeliveryInv'
<1>1. /\ UNCHANGED <<executor, forge, files, staging>> /\ faults' \in 0 .. MaxDeliveryFaults
    BY FaultsInBound DEF DeliveryLeaseExpires, StopDelivery, ResumeDelivery, DeliveryInv, DeliveryTypeOK
<1>2. PICK old \in DeliveryRow : old = delivery[r] /\ RowIsSound(r, old)
    BY RowOf
<1>3. executor' \in [Executors -> ExecutorState] /\ OneClaim'
    BY <1>1, RowOf DEF OneClaim
<1>4. PICK next \in Nat : next = old.fence + 1
    BY DEF DeliveryRow
<1>5. PICK row \in DeliveryRow :
          /\ delivery' = [delivery EXCEPT ![r] = row] /\ RowIsSound(r, row)
          /\ \/ row.fence = old.fence /\ KeepsClaim(old, row)
             \/ row.fence = next
  <2>1. CASE DeliveryLeaseExpires(r)
    <3> DEFINE n == [old EXCEPT !.lease = "expired"]
    <3>1. /\ n \in DeliveryRow /\ RowIsSound(r, n) /\ n.fence = old.fence /\ KeepsClaim(old, n)
        BY <1>2 DEF DeliveryRow, RowIsSound, KeepsClaim
    <3>2. delivery' = [delivery EXCEPT ![r] = n]
        BY <1>2, <2>1 DEF DeliveryLeaseExpires
    <3> QED
        BY <3>1, <3>2
  <2>2. CASE ResumeDelivery(r)
    <3> DEFINE n == [old EXCEPT !.status = "ready"]
    <3>1. /\ n \in DeliveryRow /\ RowIsSound(r, n) /\ n.fence = old.fence /\ KeepsClaim(old, n)
        BY <1>2 DEF DeliveryRow, RowIsSound, KeepsClaim
    <3>2. delivery' = [delivery EXCEPT ![r] = n]
        BY <1>2, <2>2 DEF ResumeDelivery
    <3> QED
        BY <3>1, <3>2
  <2>3. CASE StopDelivery(r) /\ old.open /\ old.stage = "deliver"
    <3> DEFINE n == [old EXCEPT !.status = "reconciling"]
    <3>1. /\ n \in DeliveryRow /\ RowIsSound(r, n) /\ n.fence = old.fence /\ KeepsClaim(old, n)
        BY <1>2 DEF DeliveryRow, RowIsSound, KeepsClaim
    <3>2. delivery' = [delivery EXCEPT ![r] = n]
        BY <1>2, <2>3 DEF StopDelivery
    <3> QED
        BY <3>1, <3>2
  <2>4. CASE StopDelivery(r) /\ ~(old.open /\ old.stage = "deliver")
    <3> DEFINE n == [old EXCEPT !.status = "cancelled", !.lease = "expired", !.fence = next]
    <3>1. /\ n \in DeliveryRow /\ RowIsSound(r, n) /\ n.fence = next
        BY <1>2 DEF DeliveryRow, RowIsSound
    <3>2. delivery' = [delivery EXCEPT ![r] = n]
        BY <1>2, <1>4, <2>4 DEF StopDelivery
    <3> QED
        BY <3>1, <3>2
  <2> QED
      BY <2>1, <2>2, <2>3, <2>4
<1>6. old.fence \in Nat /\ old.fence <= row.fence
    BY <1>4, <1>5 DEF DeliveryRow
<1>7. ASSUME NEW y \in Executors, executor[y].pc # "idle", executor[y].run = r, executor[y].fence = row.fence
      PROVE  row.fence = old.fence /\ KeepsClaim(old, row)
  <2>1. executor[y].fence <= old.fence
      BY <1>2, <1>7, RowOf
  <2> QED
      BY <1>4, <1>5, <1>6, <1>7, <2>1
<1> QED
    BY <1>1, <1>2, <1>3, <1>5, <1>6, <1>7, RowKeepsInv

LEMMA BaseAdvancesKeepsInv ==
    ASSUME DeliveryInv, BaseAdvances
    PROVE  DeliveryInv'
<1>1. /\ UNCHANGED <<delivery, executor, files, staging>> /\ faults' \in 0 .. MaxDeliveryFaults
      /\ forge'.branches = forge.branches /\ forge'.pulls = forge.pulls /\ forge'.statuses = forge.statuses
      /\ forge' \in [branches : SUBSET ReleaseActions, pulls : SUBSET ReleaseActions,
                     statuses : SUBSET ReleaseActions, base : {"accepted", "advanced"}]
    BY FaultsInBound DEF BaseAdvances, DeliveryInv, DeliveryTypeOK
<1>2. \A a, n : EffectsReached(a, n)' <=> EffectsReached(a, n)
    BY <1>1 DEF EffectsReached, Stored
<1>3. DeliveryTypeOK' /\ RowsStand' /\ CurrentIsWhole' /\ OneClaim' /\ ComparisonHolds'
    BY <1>1, <1>2 DEF DeliveryInv, DeliveryTypeOK, RowsStand, CurrentIsWhole, OneClaim, ComparisonHolds, Replaceable
<1>4. \A x \in Executors : Stands(executor[x])'
    BY <1>1, <1>2 DEF DeliveryInv, Stands, ClaimStands, WorkStands, LateStands, Clear, Holds
<1> QED
    BY <1>3, <1>4 DEF DeliveryInv

\* A claim puts the row's fence past every claim made before.
LEMMA ClaimKeepsInv ==
    ASSUME DeliveryInv, NEW x \in Executors, NEW r \in Deliveries, ClaimDelivery(x, r)
    PROVE  DeliveryInv' /\ delivery'[r].released = delivery[r].released
<1>1. /\ executor[x].pc = "idle" /\ UNCHANGED <<forge, files, staging, faults>>
      /\ faults' \in 0 .. MaxDeliveryFaults
    BY DEF ClaimDelivery, DeliveryInv, DeliveryTypeOK
<1>2. PICK old \in DeliveryRow : old = delivery[r] /\ RowIsSound(r, old)
    BY RowOf
<1>3. PICK next \in Nat : next = old.fence + 1
    BY DEF DeliveryRow
<1>4. PICK step \in 1 .. MaxSteps :
         /\ step = IF old.open \/ old.stage = "verify_delivery" THEN old.step ELSE old.step + 1
         /\ old.open \/ old.stage = "verify_delivery" => step = old.step
         /\ ActionOf(r) = <<r, IF old.stage = "deliver" THEN step ELSE old.released>>
  <2>1. /\ (old.open \/ old.step < MaxSteps \/ old.stage = "verify_delivery") /\ MaxSteps \in Nat
        /\ old.step \in 0 .. MaxSteps /\ old.stage \in {"deliver", "verify_delivery"}
        /\ old.open \/ old.stage = "verify_delivery" => old.step > 0
      BY <1>2, DeliveryAssumption DEF ClaimDelivery, DeliveryRow, RowIsSound, DeliveryAssumption
  <2>2. CASE old.open \/ old.stage = "verify_delivery"
      BY <1>2, <2>1, <2>2 DEF ActionOf
  <2>3. CASE ~(old.open \/ old.stage = "verify_delivery")
      BY <1>2, <2>1, <2>3, DeliveryAssumption DEF ActionOf, DeliveryAssumption
  <2> QED
      BY <2>2, <2>3
<1>5. PICK status \in {"reconciling", "running"} :
         status = IF old.status = "reconciling" THEN "reconciling" ELSE "running"
    OBVIOUS
<1> DEFINE row == [old EXCEPT !.status = status, !.step = step, !.open = TRUE, !.lease = "live", !.fence = next]
<1>6. /\ row \in DeliveryRow /\ row.status = status /\ row.step = step /\ row.open /\ row.fence = next
      /\ row.lease = "live" /\ row.stage = old.stage /\ row.released = old.released
  <2>1. step \in 0 .. MaxSteps
      BY DeliveryAssumption DEF DeliveryAssumption
  <2> QED
      BY <2>1 DEF DeliveryRow
<1>7. delivery' = [delivery EXCEPT ![r] = row]
    BY <1>2, <1>3, <1>4, <1>5 DEF ClaimDelivery
<1> HIDE DEF row
<1>8. RowIsSound(r, row)
    BY <1>2, <1>4, <1>6 DEF RowIsSound
<1>9. PICK action \in ReleaseActions :
         action = ActionOf(r) /\ action = <<r, IF old.stage = "deliver" THEN step ELSE old.released>>
    BY <1>2, <1>4, DeliveryAssumption DEF RowIsSound, DeliveryRow, ReleaseActions, DeliveryAssumption
<1>10. PICK can \in BOOLEAN : can = (old.stage = "deliver" /\ old.status # "reconciling")
    OBVIOUS
<1>idle. PICK idle \in ExecutorState :
            idle = IdleExecutor /\ idle.late = 0 /\ idle.at = 1 /\ idle.outcome = None
  <2>1. IdleExecutor \in ExecutorState
      BY DEF IdleExecutor, ExecutorState
  <2>2. IdleExecutor.late = 0 /\ IdleExecutor.at = 1 /\ IdleExecutor.outcome = None
      BY DEF IdleExecutor
  <2> QED
      BY <2>1, <2>2
<1> DEFINE n == [idle EXCEPT !.pc = "prepare", !.run = r, !.stage = old.stage,
                    !.action = action, !.fence = next, !.canWrite = can]
<1>11. /\ n \in ExecutorState /\ n.pc = "prepare" /\ n.run = r /\ n.stage = old.stage /\ n.action = action
       /\ n.fence = next /\ n.late = 0 /\ n.at = 1 /\ n.outcome = None
  <2>1. old.stage \in {"deliver", "verify_delivery"}
      BY DEF DeliveryRow
  <2>2. n \in ExecutorState
      BY <2>1 DEF ExecutorState
  <2>3. n.late = idle.late /\ n.at = idle.at /\ n.outcome = idle.outcome
      BY DEF ExecutorState
  <2>4. n.pc = "prepare" /\ n.run = r /\ n.stage = old.stage /\ n.action = action /\ n.fence = next
      BY DEF ExecutorState
  <2> QED
      BY <1>idle, <2>2, <2>3, <2>4
<1>12. executor' = [executor EXCEPT ![x] = n]
    BY <1>2, <1>3, <1>9, <1>10, <1>idle DEF ClaimDelivery, Goes
<1> HIDE DEF n
<1>13. /\ executor' \in [Executors -> ExecutorState] /\ executor'[x] = n
       /\ \A y \in Executors : y # x => executor'[y] = executor[y]
    BY <1>11, <1>12, RowOf
<1>14. ASSUME NEW y \in Executors, executor[y].pc # "idle", executor[y].run = r
       PROVE  executor[y].fence # next
  <2>1. executor[y].fence \in Nat /\ executor[y].fence <= old.fence /\ old.fence \in Nat
      BY <1>2, <1>14, RowOf DEF DeliveryRow
  <2> QED
      BY <1>3, <2>1
<1>15. OneClaim'
    BY <1>11, <1>13, <1>14, RowOf DEF OneClaim
<1>16. delivery'[r] = row
    BY <1>7 DEF DeliveryInv, DeliveryTypeOK
<1>17. Stands(n)'
  <2>1. ClaimStands(n)'
    <3>1. next <= next
        OBVIOUS
    <3> QED
        BY <1>6, <1>9, <1>11, <1>16, <3>1 DEF ClaimStands
  <2>2. WorkStands(n)'
    <3>1. ~(0 >= 1) /\ ~(0 >= 2) /\ ~(0 >= 3) /\ ~(0 >= 4) /\ ~(0 >= 5) /\ 1 <= 4 /\ 1 <= 5 /\ 1 - 1 = 0
        OBVIOUS
    <3>2. n.outcome # "succeeded"
        BY <1>11, DeliveryAssumption DEF DeliveryAssumption
    <3> QED
        BY <1>11, <3>1, <3>2 DEF WorkStands, EffectsReached, LastEffect
  <2>3. LateStands(n)'
      BY <1>11 DEF LateStands
  <2> QED
      BY <1>11, <2>1, <2>2, <2>3 DEF Stands
<1>18. Stands(executor[x])' /\ executor'[x].pc # "write"
    BY <1>11, <1>13, <1>17 DEF Stands, ClaimStands, WorkStands, LateStands, Clear, Holds
<1>19. delivery[r].fence <= row.fence
    BY <1>2, <1>3, <1>6 DEF DeliveryRow
<1>20. \A y \in Executors :
          \/ /\ executor'[y] = executor[y]
             /\ executor[y].pc # "idle" /\ executor[y].run = r /\ executor[y].fence = row.fence =>
                   row.fence = delivery[r].fence /\ KeepsClaim(delivery[r], row)
          \/ Stands(executor[y])' /\ executor'[y].pc # "write"
    BY <1>6, <1>13, <1>14, <1>18
<1>21. DeliveryInv'
    BY <1>1, <1>6, <1>7, <1>8, <1>13, <1>15, <1>19, <1>20, RowKeepsInv
<1> QED
    BY <1>2, <1>6, <1>16, <1>21

\* The result of a step, and what a delivered action has left behind.
LEMMA CompleteKeepsInv ==
    ASSUME DeliveryInv, NEW x \in Executors, CompleteDelivery(x)
    PROVE  /\ DeliveryInv' /\ executor[x].run \in Deliveries
           /\ \A q \in Deliveries : q # executor[x].run => delivery'[q] = delivery[q]
           /\ \/ delivery'[executor[x].run].released = delivery[executor[x].run].released
              \/ /\ delivery[executor[x].run].released = 0 /\ delivery'[executor[x].run].released > 0
                 /\ EffectsReached(<<executor[x].run, delivery'[executor[x].run].released>>, 4)
<1>1. /\ executor[x].pc = "report" /\ HoldsLease(x) /\ UNCHANGED <<forge, files, staging, faults>>
      /\ faults' \in 0 .. MaxDeliveryFaults
    BY DEF CompleteDelivery, DeliveryInv, DeliveryTypeOK
<1>2. PICK e \in ExecutorState : e = executor[x] /\ ClaimStands(e) /\ WorkStands(e) /\ Holds(e)
    BY <1>1, GuardIsClear DEF DeliveryInv, DeliveryTypeOK, Stands
<1>3. PICK r \in Deliveries : r = e.run
    BY <1>2 DEF Holds
<1>4. PICK old \in DeliveryRow : old = delivery[r] /\ RowIsSound(r, old)
    BY RowOf
<1>5. /\ old.open /\ old.stage = e.stage /\ old.fence = e.fence /\ old.status \in {"running", "reconciling"}
      /\ e.action = <<r, IF e.stage = "deliver" THEN old.step ELSE old.released>>
    BY <1>2, <1>3, <1>4 DEF Holds, ClaimStands
<1>6. PICK row \in DeliveryRow :
         /\ delivery' = [delivery EXCEPT ![r] = row] /\ RowIsSound(r, row) /\ row.fence = old.fence
         /\ \/ row.released = old.released
            \/ old.released = 0 /\ row.released > 0 /\ EffectsReached(<<r, row.released>>, 4)
  <2> DEFINE done == [old EXCEPT !.open = FALSE, !.lease = "expired"]
  <2>1. delivery' = [delivery EXCEPT ![r] = Settled(r, e.outcome)]
      BY <1>2, <1>3 DEF CompleteDelivery
  <2>2. /\ done \in DeliveryRow /\ done.stage = old.stage /\ done.status = old.status /\ done.step = old.step
        /\ done.released = old.released /\ done.fence = old.fence /\ ~done.open
      BY DEF DeliveryRow
  <2>3. old.step > 0 /\ (old.stage = "deliver" <=> old.released = 0) /\ old.step \in 0 .. MaxSteps
        /\ old.stage \in {"deliver", "verify_delivery"}
      BY <1>4, <1>5 DEF RowIsSound, DeliveryRow
  <2>4. Settled(r, e.outcome) =
          IF done.status = "reconciling"
          THEN [done EXCEPT !.status = IF e.outcome = "succeeded" THEN "cancelled" ELSE "blocked"]
          ELSE IF e.outcome # "succeeded" THEN [done EXCEPT !.status = "blocked"]
          ELSE IF done.stage = "deliver"
          THEN [done EXCEPT !.status = "ready", !.stage = "verify_delivery", !.released = done.step]
          ELSE [done EXCEPT !.status = "completed"]
      BY <1>4 DEF Settled
  <2> HIDE DEF done
  <2>5. ASSUME NEW s \in {"cancelled", "blocked"}, Settled(r, e.outcome) = [done EXCEPT !.status = s]
        PROVE  /\ Settled(r, e.outcome) \in DeliveryRow /\ RowIsSound(r, Settled(r, e.outcome))
               /\ Settled(r, e.outcome).fence = old.fence /\ Settled(r, e.outcome).released = old.released
    <3> DEFINE n == [done EXCEPT !.status = s]
    <3>1. /\ n \in DeliveryRow /\ n.stage = old.stage /\ n.status = s /\ n.step = old.step
          /\ n.released = old.released /\ n.fence = old.fence
        BY <2>2 DEF DeliveryRow
    <3>2. RowIsSound(r, n)
        BY <2>3, <3>1 DEF RowIsSound
    <3> QED
        BY <2>5, <3>1, <3>2
  <2>6. ASSUME done.status # "reconciling", e.outcome = "succeeded"
        PROVE  e.at = LastEffect(e.stage) /\ EffectsReached(e.action, e.at)
      BY <1>2, <2>6 DEF WorkStands
  <2>7. CASE done.status = "reconciling" \/ e.outcome # "succeeded"
    <3>1. \/ Settled(r, e.outcome) = [done EXCEPT !.status = "cancelled"]
          \/ Settled(r, e.outcome) = [done EXCEPT !.status = "blocked"]
        BY <2>4, <2>7
    <3> QED
        BY <2>1, <2>5, <3>1
  <2>8. CASE done.status # "reconciling" /\ e.outcome = "succeeded" /\ old.stage = "deliver"
    <3> DEFINE n == [done EXCEPT !.status = "ready", !.stage = "verify_delivery", !.released = old.step]
    <3>1. /\ n \in DeliveryRow /\ n.stage = "verify_delivery" /\ n.status = "ready" /\ n.step = old.step
          /\ n.released = old.step /\ n.fence = old.fence
        BY <2>2, <2>3 DEF DeliveryRow
    <3>2. RowIsSound(r, n)
        BY <2>3, <3>1 DEF RowIsSound
    <3>3. EffectsReached(<<r, old.step>>, 4)
        BY <1>5, <2>6, <2>8 DEF LastEffect
    <3>4. Settled(r, e.outcome) = n
        BY <2>2, <2>4, <2>8
    <3> HIDE DEF n
    <3> QED
        BY <2>1, <2>3, <2>8, <3>1, <3>2, <3>3, <3>4
  <2>9. CASE done.status # "reconciling" /\ e.outcome = "succeeded" /\ old.stage # "deliver"
    <3> DEFINE n == [done EXCEPT !.status = "completed"]
    <3>1. /\ n \in DeliveryRow /\ n.stage = old.stage /\ n.status = "completed" /\ n.step = old.step
          /\ n.released = old.released /\ n.fence = old.fence
        BY <2>2 DEF DeliveryRow
    <3>2. EffectsReached(<<r, old.released>>, 5)
        BY <1>5, <2>6, <2>9 DEF LastEffect
    <3>3. old.released > 0
        BY <2>3, <2>9 DEF DeliveryRow
    <3>4. RowIsSound(r, n)
        BY <2>3, <2>9, <3>1, <3>2, <3>3 DEF RowIsSound
    <3>5. Settled(r, e.outcome) = n
        BY <2>2, <2>4, <2>9
    <3> HIDE DEF n
    <3> QED
        BY <2>1, <3>1, <3>4, <3>5
  <2> QED
      BY <2>7, <2>8, <2>9
<1>7. /\ executor' \in [Executors -> ExecutorState] /\ executor'[x] = IdleExecutor
      /\ \A y \in Executors : y # x => executor'[y] = executor[y]
  <2>1. IdleExecutor \in ExecutorState
      BY DEF IdleExecutor, ExecutorState
  <2>2. executor' = [executor EXCEPT ![x] = IdleExecutor]
      BY DEF CompleteDelivery, Goes
  <2> QED
      BY <2>1, <2>2, RowOf
<1>8. executor'[x].pc = "idle" /\ executor'[x].late = 0 /\ executor'[x].run = None
    BY <1>7 DEF IdleExecutor
<1>9. OneClaim'
    BY <1>7, <1>8, RowOf DEF OneClaim
<1>10. Stands(executor[x])'
    BY <1>8 DEF Stands
<1>11. ASSUME NEW y \in Executors, y # x, executor[y].pc # "idle", executor[y].run = r
       PROVE  executor[y].fence # row.fence
    BY <1>1, <1>2, <1>3, <1>5, <1>6, <1>11, RowOf DEF OneClaim
<1>12. delivery[r].fence <= row.fence
    BY <1>4, <1>6 DEF DeliveryRow
<1>others. \A y \in Executors :
          \/ /\ executor'[y] = executor[y]
             /\ executor[y].pc # "idle" /\ executor[y].run = r /\ executor[y].fence = row.fence =>
                   row.fence = delivery[r].fence /\ KeepsClaim(delivery[r], row)
          \/ Stands(executor[y])' /\ executor'[y].pc # "write"
    BY <1>7, <1>8, <1>10, <1>11
<1>13. DeliveryInv'
    BY <1>1, <1>6, <1>7, <1>9, <1>12, <1>others, RowKeepsInv
<1>14. delivery'[r] = row /\ \A q \in Deliveries : q # r => delivery'[q] = delivery[q]
    BY <1>6 DEF DeliveryInv, DeliveryTypeOK
<1> QED
    BY <1>2, <1>3, <1>4, <1>6, <1>13, <1>14

-----------------------------------------------------------------------------
(* The invariant holds *)

LEMMA DeliveryInitInv == DeliveryInit => DeliveryInv
<1> SUFFICES ASSUME DeliveryInit PROVE DeliveryInv
    OBVIOUS
<1>1. DeliveryTypeOK
  <2>1. IdleExecutor \in ExecutorState
      BY DEF IdleExecutor, ExecutorState
  <2>2. delivery \in [Deliveries -> DeliveryRow]
      BY DeliveryAssumption DEF DeliveryInit, DeliveryRow, DeliveryAssumption
  <2> QED
      BY <2>1, <2>2, DeliveryAssumption DEF DeliveryInit, DeliveryTypeOK, DeliveryAssumption
<1>2. \A x \in Executors : executor[x].pc = "idle" /\ executor[x].late = 0 /\ executor[x].run = None
    BY DEF DeliveryInit, IdleExecutor
<1>3. RowsStand
    BY DEF DeliveryInit, RowsStand
<1>4. CurrentIsWhole
    BY DEF DeliveryInit, CurrentIsWhole
<1> QED
    BY <1>1, <1>2, <1>3, <1>4 DEF DeliveryInv, OneClaim, ComparisonHolds, Stands

LEMMA DeliveryStepInv == DeliveryInv /\ [DeliveryNext]_deliveryVars => DeliveryInv'
<1> SUFFICES ASSUME DeliveryInv, [DeliveryNext]_deliveryVars PROVE DeliveryInv'
    OBVIOUS
<1>1. ASSUME NEW x \in Executors, ExecutorStep(x) PROVE DeliveryInv'
  <2>1. CASE \E r \in Deliveries : ClaimDelivery(x, r)
      BY <2>1, ClaimKeepsInv
  <2>2. CASE Prepare(x)
      BY <2>2, PrepareKeepsInv
  <2>3. CASE ReadEffect(x)
      BY <2>3, ReadEffectKeepsInv
  <2>4. CASE PushBranch(x) \/ CreatePull(x) \/ PostStatus(x)
      BY <2>4, ForgeWritesKeepInv
  <2>5. CASE StoreArtifact(x)
      BY <2>5, StoreArtifactKeepsInv
  <2>6. CASE LockStaging(x)
      BY <2>6, LockStagingKeepsInv
  <2>7. CASE StoreRelease(x)
      BY <2>7, StoreReleaseKeepsInv
  <2>8. CASE CompareRelease(x)
      BY <2>8, CompareReleaseKeepsInv
  <2>9. CASE SelectRelease(x)
      BY <2>9, SelectReleaseKeepsInv
  <2>10. CASE ReadBack(x)
      BY <2>10, ReadBackKeepsInv
  <2>11. CASE AddEffect(x)
      BY <2>11, AddEffectKeepsInv
  <2>12. CASE Probe(x)
      BY <2>12, ProbeKeepsInv
  <2>13. CASE CompleteDelivery(x)
      BY <2>13, CompleteKeepsInv
  <2>14. CASE LeaveDelivery(x)
      BY <2>14, LeaveKeepsInv
  <2> QED
      BY <1>1, <2>1, <2>2, <2>3, <2>4, <2>5, <2>6, <2>7, <2>8, <2>9, <2>10, <2>11, <2>12, <2>13, <2>14
      DEF ExecutorStep
<1>2. ASSUME NEW x \in Executors, WriteFails(x) PROVE DeliveryInv'
    BY <1>2, WriteFailsKeepsInv
<1>3. ASSUME NEW x \in Executors, TearFile(x) \/ CrashDelivery(x) PROVE DeliveryInv'
    BY <1>3, LeaveKeepsInv
<1>4. ASSUME NEW r \in Deliveries, DeliveryLeaseExpires(r) \/ StopDelivery(r) \/ ResumeDelivery(r) PROVE DeliveryInv'
    BY <1>4, OwnerKeepsInv
<1>5. CASE BaseAdvances
    BY <1>5, BaseAdvancesKeepsInv
<1>6. CASE UNCHANGED deliveryVars
    BY <1>6 DEF deliveryVars, DeliveryInv, DeliveryTypeOK, RowsStand, CurrentIsWhole, OneClaim, ComparisonHolds,
        Replaceable, Stands, ClaimStands, WorkStands, LateStands, Clear, Holds, EffectsReached, Stored
<1> QED
    BY <1>1, <1>2, <1>3, <1>4, <1>5, <1>6 DEF DeliveryNext

\* Every behaviour of the delivery stages keeps the invariant.
THEOREM DeliveryIsSound == DeliverySpec => []DeliveryInv
BY DeliveryInitInv, DeliveryStepInv, PTL DEF DeliverySpec

\* Rows, executors, forge and file states stay inside their types, for any
\* number of runs, executors, steps and faults (delivery.go).
THEOREM DeliveryTypes == DeliverySpec => []DeliveryTypeOK
<1>1. DeliveryInv => DeliveryTypeOK
    BY DEF DeliveryInv
<1> QED
    BY <1>1, DeliveryIsSound, PTL

\* A repeated or overtaken execution is harmless: whoever holds the lease of
\* a step works on that step's action, and no executor lets a second effect
\* land once the guard it was cleared under is gone.
THEOREM HarmlessRepeats == DeliverySpec => []RepeatsAreHarmless
<1>1. DeliveryInv => RepeatsAreHarmless
  <2> SUFFICES ASSUME DeliveryInv, NEW x \in Executors
               PROVE  /\ executor[x].late <= 1
                      /\ HoldsLease(x) => executor[x].action = <<executor[x].run,
                            IF executor[x].stage = "deliver" THEN delivery[executor[x].run].step
                            ELSE delivery[executor[x].run].released>>
      BY DEF RepeatsAreHarmless, AtMostOneLateEffect, RepeatsShareTheAction
  <2>1. Stands(executor[x])
      BY DEF DeliveryInv
  <2>2. executor[x].late <= 1
      BY <2>1 DEF Stands, LateStands
  <2>3. HoldsLease(x) => ClaimStands(executor[x]) /\ executor[x].fence = delivery[executor[x].run].fence
      BY <2>1, DeliveryAssumption DEF HoldsLease, Stands, DeliveryAssumption
  <2> QED
      BY <2>2, <2>3 DEF ClaimStands
<1> QED
    BY <1>1, DeliveryIsSound, PTL

\* A completed delivery left a commit, a pull request, whole archives, a
\* release that staging served and a CI status behind, whatever executors
\* died or overtook each other on the way (delivery, verifyDelivery).
THEOREM CompletedDeliveryIsWhole == DeliverySpec => []CompletedIsWhole
<1>1. DeliveryInv => CompletedIsWhole
    BY DEF DeliveryInv, RowsStand, CompletedIsWhole, EffectsReached
<1> QED
    BY <1>1, DeliveryIsSound, PTL

-----------------------------------------------------------------------------
(* The deliver stage implements the release contract *)

\* The actions with a whole artifact, and those reported as delivered.
Archived == {a \in ReleaseActions : Stored(ArtifactPaths(a))}
Delivered == {<<r, delivery[r].released>> : r \in {q \in Deliveries : delivery[q].released > 0}}

ContractStep == [Contract!ContractNext]_(Contract!contractVars)

\* Nothing of what the contract sees changed.
LEMMA ContractStutters ==
    ASSUME UNCHANGED <<forge.branches, forge.pulls, staging.past, staging.current>>,
           Archived' = Archived, Delivered' = Delivered
    PROVE  ContractStep
BY DEF ContractStep, Contract!contractVars, Archived, Delivered

LEMMA DeliveredStays ==
    ASSUME \A r \in Deliveries : delivery'[r].released = delivery[r].released
    PROVE  Delivered' = Delivered
BY DEF Delivered

LEMMA ArchivedStays ==
    ASSUME \A a \in ReleaseActions : files'[<<"archive", a>>] = "full" /\ files'[<<"manifest", a>>] = "full"
                                     <=> files[<<"archive", a>>] = "full" /\ files[<<"manifest", a>>] = "full"
    PROVE  Archived' = Archived
<1>1. \A a \in ReleaseActions : Stored(ArtifactPaths(a))' <=> Stored(ArtifactPaths(a))
    BY StoredFiles
<1> QED
    BY <1>1 DEF Archived

\* A branch that is not there yet is a commit; a pull request needs one.
LEMMA ForgeImplements ==
    ASSUME DeliveryInv, NEW x \in Executors, PushBranch(x) \/ CreatePull(x) \/ PostStatus(x)
    PROVE  ContractStep
<1>1. executor[x].pc = "write" /\ UNCHANGED <<delivery, files, staging>>
    BY DEF PushBranch, CreatePull, PostStatus
<1>2. PICK e \in ExecutorState : e = executor[x] /\ WorkStands(e) /\ e.action \in ReleaseActions
    BY <1>1 DEF DeliveryInv, DeliveryTypeOK, Stands, ClaimStands
<1>3. Archived' = Archived /\ Delivered' = Delivered
    BY <1>1, ArchivedStays, DeliveredStays
<1>4. forge \in [branches : SUBSET ReleaseActions, pulls : SUBSET ReleaseActions,
                 statuses : SUBSET ReleaseActions, base : {"accepted", "advanced"}]
    BY DEF DeliveryInv, DeliveryTypeOK
<1>5. CASE PushBranch(x)
  <2>1. forge'.branches = forge.branches \cup {e.action} /\ forge'.pulls = forge.pulls
      BY <1>2, <1>4, <1>5 DEF PushBranch
  <2>2. CASE e.action \in forge.branches
    <3>1. forge'.branches = forge.branches
        BY <2>1, <2>2
    <3> QED
        BY <1>1, <1>3, <2>1, <3>1, ContractStutters
  <2>3. CASE e.action \notin forge.branches
    <3>1. Contract!Commit(e.action)
        BY <1>1, <1>3, <2>1, <2>3 DEF Contract!Commit, Archived, Delivered
    <3> QED
        BY <1>2, <3>1 DEF ContractStep, Contract!ContractNext
  <2> QED
      BY <2>2, <2>3
<1>6. CASE CreatePull(x)
  <2>1. forge'.pulls = forge.pulls \cup {e.action} /\ forge'.branches = forge.branches
      BY <1>2, <1>4, <1>6 DEF CreatePull
  <2>2. e.action \in forge.branches
    <3>1. e.at \in 1 .. 5
        BY DEF ExecutorState
    <3>2. e.at - 1 = 1
        BY <1>2, <1>6, <3>1, KindOf DEF CreatePull
    <3> QED
        BY <1>2, <3>2 DEF WorkStands, EffectsReached
  <2>3. CASE e.action \in forge.pulls
    <3>1. forge'.pulls = forge.pulls
        BY <2>1, <2>3
    <3> QED
        BY <1>1, <1>3, <2>1, <3>1, ContractStutters
  <2>4. CASE e.action \notin forge.pulls
    <3>1. Contract!Propose(e.action)
        BY <1>1, <1>3, <2>1, <2>2, <2>4 DEF Contract!Propose, Archived, Delivered
    <3> QED
        BY <1>2, <3>1 DEF ContractStep, Contract!ContractNext
  <2> QED
      BY <2>3, <2>4
<1>7. CASE PostStatus(x)
  <2>1. forge'.pulls = forge.pulls /\ forge'.branches = forge.branches
      BY <1>4, <1>7 DEF PostStatus
  <2> QED
      BY <1>1, <1>3, <2>1, ContractStutters
<1> QED
    BY <1>5, <1>6, <1>7

\* The second file of the archive makes it whole, after the pull request.
LEMMA ArtifactImplements ==
    ASSUME DeliveryInv, NEW x \in Executors, StoreArtifact(x)
    PROVE  ContractStep
<1>1. executor[x].pc = "write" /\ Kind(x) = "artifact" /\ UNCHANGED <<delivery, forge, staging>>
    BY DEF StoreArtifact
<1>2. PICK e \in ExecutorState : e = executor[x] /\ WorkStands(e) /\ e.action \in ReleaseActions
    BY <1>1 DEF DeliveryInv, DeliveryTypeOK, Stands, ClaimStands
<1>3. Delivered' = Delivered
    BY <1>1, DeliveredStays
<1>4. e.at = 3 /\ e.file \in {1, 2} /\ e.action \in forge.pulls
  <2>1. e.at \in 1 .. 5 /\ e.file \in 1 .. 4
      BY DEF ExecutorState
  <2>2. e.at = 3 /\ e.at - 1 = 2
      BY <1>1, <1>2, <2>1, KindOf
  <2> QED
      BY <1>1, <1>2, <2>1, <2>2 DEF WorkStands, EffectsReached
<1> DEFINE path == ArtifactPaths(e.action)[e.file]
<1>5. path = <<"archive", e.action>> \/ path = <<"manifest", e.action>>
    BY <1>4 DEF ArtifactPaths
<1>6. files' = files \/ files' = [files EXCEPT ![path] = "full"]
    BY <1>2 DEF StoreArtifact, ImmutableFile
<1> HIDE DEF path
<1>7. \A p \in Paths : p # path => files'[p] = files[p]
    BY <1>6 DEF DeliveryInv, DeliveryTypeOK
<1>8. \A a \in ReleaseActions \ {e.action} : Stored(ArtifactPaths(a))' <=> Stored(ArtifactPaths(a))
  <2> SUFFICES ASSUME NEW a \in ReleaseActions, a # e.action
               PROVE  Stored(ArtifactPaths(a))' <=> Stored(ArtifactPaths(a))
      OBVIOUS
  <2>1. path # <<"archive", a>> /\ path # <<"manifest", a>>
      BY <1>5
  <2> QED
      BY <1>7, <2>1, PathsOf, StoredFiles
<1>9. Stored(ArtifactPaths(e.action)) => Stored(ArtifactPaths(e.action))'
  <2>1. \A p \in Paths : files[p] = "full" => files'[p] = "full"
      BY <1>6 DEF DeliveryInv, DeliveryTypeOK
  <2> QED
      BY <1>2, <2>1, PathsOf, StoredFiles
<1>10. CASE Stored(ArtifactPaths(e.action)) \/ ~Stored(ArtifactPaths(e.action))'
  <2>1. Archived' = Archived
      BY <1>8, <1>9, <1>10 DEF Archived
  <2> QED
      BY <1>1, <1>3, <2>1, ContractStutters
<1>11. CASE ~Stored(ArtifactPaths(e.action)) /\ Stored(ArtifactPaths(e.action))'
  <2>1. e.action \notin Archived /\ Archived' = Archived \cup {e.action}
      BY <1>2, <1>8, <1>11 DEF Archived
  <2>2. Contract!Archive(e.action)
      BY <1>1, <1>3, <1>4, <2>1 DEF Contract!Archive, Archived, Delivered
  <2> QED
      BY <1>2, <2>2 DEF ContractStep, Contract!ContractNext
<1> QED
    BY <1>10, <1>11

\* A torn file was no part of a whole archive, and staging has its own.
LEMMA OtherFilesImplement ==
    ASSUME DeliveryInv, NEW x \in Executors, TearFile(x) \/ StoreRelease(x)
    PROVE  ContractStep
<1>1. /\ UNCHANGED <<delivery, forge>> /\ executor[x].pc = "write"
      /\ staging'.past = staging.past /\ staging'.current = staging.current
    BY DEF TearFile, StoreRelease, DeliveryInv, DeliveryTypeOK
<1>2. Archived' = Archived
  <2>1. CASE TearFile(x)
    <3>1. \E path : files[path] = "absent" /\ files' = [files EXCEPT ![path] = "torn"]
        BY <2>1 DEF TearFile
    <3>2. \A p \in Paths : files'[p] = "full" <=> files[p] = "full"
        BY <3>1 DEF DeliveryInv, DeliveryTypeOK
    <3> QED
        BY <3>2, PathsOf, ArchivedStays
  <2>2. CASE StoreRelease(x)
    <3>1. PICK e \in ExecutorState : e = executor[x]
        BY DEF DeliveryInv, DeliveryTypeOK
    <3>2. e.file \in {1, 2}
        BY <2>2, <3>1 DEF StoreRelease, ExecutorState
    <3> DEFINE path == ReleasePaths(e.action)[e.file]
    <3>3. path = <<"release_manifest", e.action>> \/ path = <<"source_tar", e.action>>
        BY <3>2 DEF ReleasePaths
    <3>4. files' = files \/ files' = [files EXCEPT ![path] = "full"]
        BY <2>2, <3>1 DEF StoreRelease, ImmutableFile
    <3> HIDE DEF path
    <3>5. \A p \in Paths : p # path => files'[p] = files[p]
        BY <3>4 DEF DeliveryInv, DeliveryTypeOK
    <3>6. \A a \in ReleaseActions : path # <<"archive", a>> /\ path # <<"manifest", a>>
        BY <3>3
    <3> QED
        BY <3>5, <3>6, PathsOf, ArchivedStays
  <2> QED
      BY <2>1, <2>2
<1> QED
    BY <1>1, <1>2, DeliveredStays, ContractStutters

LEMMA SelectImplements ==
    ASSUME DeliveryInv, NEW x \in Executors, SelectRelease(x)
    PROVE  ContractStep
<1>1. PICK a \in ReleaseActions : a = executor[x].action /\ Replaceable(a) /\ Stored(ArtifactPaths(a))
    BY SelectReleaseKeepsInv
<1>2. /\ UNCHANGED <<delivery, forge, files>> /\ staging'.current = a /\ staging'.past = staging.past \cup {a}
    BY <1>1 DEF SelectRelease
<1>3. Archived' = Archived /\ Delivered' = Delivered
    BY <1>2, ArchivedStays, DeliveredStays
<1>4. staging.current \in {a, [b \in ReleaseActions |-> ExpectedRelease[b[1]]][a]}
    BY <1>1 DEF Replaceable
<1>5. a \in Archived
    BY <1>1 DEF Archived
<1>6. Contract!Select(a)
    BY <1>2, <1>3, <1>4, <1>5 DEF Contract!Select, Archived, Delivered
<1> QED
    BY <1>6 DEF ContractStep, Contract!ContractNext

\* A delivered action had been selected, and was not delivered before.
LEMMA CompleteImplements ==
    ASSUME DeliveryInv, NEW x \in Executors, CompleteDelivery(x)
    PROVE  ContractStep
<1>1. UNCHANGED <<forge, files, staging>>
    BY DEF CompleteDelivery
<1>2. Archived' = Archived
    BY <1>1, ArchivedStays
<1>3. PICK r \in Deliveries :
         /\ \A q \in Deliveries : q # r => delivery'[q] = delivery[q]
         /\ \/ delivery'[r].released = delivery[r].released
            \/ /\ delivery[r].released = 0 /\ delivery'[r].released > 0
               /\ EffectsReached(<<r, delivery'[r].released>>, 4)
         /\ DeliveryInv'
    BY CompleteKeepsInv
<1>4. CASE delivery'[r].released = delivery[r].released
  <2>1. \A q \in Deliveries : delivery'[q].released = delivery[q].released
      BY <1>3, <1>4
  <2> QED
      BY <1>1, <1>2, <2>1, DeliveredStays, ContractStutters
<1>5. CASE /\ delivery[r].released = 0 /\ delivery'[r].released > 0
           /\ EffectsReached(<<r, delivery'[r].released>>, 4)
  <2>1. delivery'[r].released \in 1 .. MaxSteps
      BY <1>3, <1>5, DeliveryAssumption DEF DeliveryInv, DeliveryTypeOK, DeliveryRow, DeliveryAssumption
  <2>2. PICK a \in ReleaseActions : a = <<r, delivery'[r].released>>
      BY <2>1 DEF ReleaseActions
  <2>3. a \in staging.past
      BY <1>5, <2>2 DEF EffectsReached
  <2>4. ~(delivery[r].released > 0)
      BY <1>5
  <2>5. a \notin Delivered /\ Delivered' = Delivered \cup {a}
      BY <1>3, <1>5, <2>2, <2>4 DEF Delivered
  <2>6. Contract!Deliver(a)
      BY <1>1, <1>2, <2>3, <2>5 DEF Contract!Deliver, Archived, Delivered
  <2> QED
      BY <2>6 DEF ContractStep, Contract!ContractNext
<1> QED
    BY <1>3, <1>4, <1>5

\* The other steps are not seen: they write rows, locks and receipts.
LEMMA UnseenStepsImplement ==
    ASSUME DeliveryInv, UNCHANGED files, UNCHANGED <<forge.branches, forge.pulls>>,
           staging'.past = staging.past, staging'.current = staging.current,
           \A r \in Deliveries : delivery'[r].released = delivery[r].released
    PROVE  ContractStep
BY ArchivedStays, DeliveredStays, ContractStutters

LEMMA RowsImplement ==
    ASSUME DeliveryInv, NEW r \in Deliveries,
           DeliveryLeaseExpires(r) \/ StopDelivery(r) \/ ResumeDelivery(r) \/ \E x \in Executors : ClaimDelivery(x, r)
    PROVE  ContractStep
<1>1. UNCHANGED <<forge, files, staging>>
    BY DEF DeliveryLeaseExpires, StopDelivery, ResumeDelivery, ClaimDelivery
<1>2. delivery[r] \in DeliveryRow /\ delivery \in [Deliveries -> DeliveryRow]
    BY DEF DeliveryInv, DeliveryTypeOK
<1>3. \A q \in Deliveries : q # r => delivery'[q] = delivery[q]
    BY <1>2 DEF DeliveryLeaseExpires, StopDelivery, ResumeDelivery, ClaimDelivery
<1>4. delivery'[r].released = delivery[r].released
  <2>1. CASE \E x \in Executors : ClaimDelivery(x, r)
      BY <2>1, ClaimKeepsInv
  <2>2. CASE DeliveryLeaseExpires(r)
      BY <1>2, <2>2 DEF DeliveryLeaseExpires, DeliveryRow
  <2>3. CASE ResumeDelivery(r)
      BY <1>2, <2>3 DEF ResumeDelivery, DeliveryRow
  <2>4. CASE StopDelivery(r)
    <3>1. PICK next : next = delivery[r].fence + 1
        OBVIOUS
    <3>2. \/ delivery' = [delivery EXCEPT ![r] = [delivery[r] EXCEPT !.status = "reconciling"]]
          \/ delivery' = [delivery EXCEPT ![r] =
                             [delivery[r] EXCEPT !.status = "cancelled", !.lease = "expired", !.fence = next]]
        BY <2>4, <3>1 DEF StopDelivery
    <3>3. CASE delivery' = [delivery EXCEPT ![r] = [delivery[r] EXCEPT !.status = "reconciling"]]
        BY <1>2, <3>3 DEF DeliveryRow
    <3>4. CASE delivery' = [delivery EXCEPT ![r] =
                              [delivery[r] EXCEPT !.status = "cancelled", !.lease = "expired", !.fence = next]]
        BY <1>2, <3>4 DEF DeliveryRow
    <3> QED
        BY <3>2, <3>3, <3>4
  <2> QED
      BY <2>1, <2>2, <2>3, <2>4
<1>5. \A q \in Deliveries : delivery'[q].released = delivery[q].released
    BY <1>3, <1>4
<1> QED
    BY <1>1, <1>5, UnseenStepsImplement

LEMMA DeliveryStepImplements == DeliveryInv /\ [DeliveryNext]_deliveryVars => ContractStep
<1> SUFFICES ASSUME DeliveryInv, [DeliveryNext]_deliveryVars PROVE ContractStep
    OBVIOUS
<1>1. staging \in [current : ReleaseActions \cup {None}, lock : Executors \cup {None}, past : SUBSET ReleaseActions]
    BY DEF DeliveryInv, DeliveryTypeOK
<1>2. ASSUME NEW x \in Executors, ExecutorStep(x) PROVE ContractStep
  <2>1. CASE \E r \in Deliveries : ClaimDelivery(x, r)
      BY <2>1, RowsImplement
  <2>2. CASE Prepare(x) \/ ReadEffect(x) \/ ReadBack(x) \/ AddEffect(x) \/ Probe(x) \/ LeaveDelivery(x)
    <3>1. UNCHANGED <<delivery, forge, files, staging>>
        BY <2>2 DEF Prepare, ReadEffect, ReadBack, AddEffect, Probe, LeaveDelivery
    <3> QED
        BY <3>1, UnseenStepsImplement
  <2>3. CASE LockStaging(x) \/ CompareRelease(x)
    <3>1. UNCHANGED <<delivery, forge, files>> /\ staging'.past = staging.past /\ staging'.current = staging.current
        BY <1>1, <2>3 DEF LockStaging, CompareRelease
    <3> QED
        BY <3>1, UnseenStepsImplement
  <2>4. CASE PushBranch(x) \/ CreatePull(x) \/ PostStatus(x)
      BY <2>4, ForgeImplements
  <2>5. CASE StoreArtifact(x)
      BY <2>5, ArtifactImplements
  <2>6. CASE StoreRelease(x)
      BY <2>6, OtherFilesImplement
  <2>7. CASE SelectRelease(x)
      BY <2>7, SelectImplements
  <2>8. CASE CompleteDelivery(x)
      BY <2>8, CompleteImplements
  <2> QED
      BY <1>2, <2>1, <2>2, <2>3, <2>4, <2>5, <2>6, <2>7, <2>8 DEF ExecutorStep
<1>3. ASSUME NEW x \in Executors, WriteFails(x) PROVE ContractStep
  <2>1. UNCHANGED <<delivery, forge, files, staging>>
      BY <1>3 DEF WriteFails
  <2> QED
      BY <2>1, UnseenStepsImplement
<1>4. ASSUME NEW x \in Executors, TearFile(x) PROVE ContractStep
    BY <1>4, OtherFilesImplement
<1>5. ASSUME NEW x \in Executors, CrashDelivery(x) PROVE ContractStep
  <2>1. UNCHANGED <<delivery, forge, files>> /\ staging'.past = staging.past /\ staging'.current = staging.current
      BY <1>1, <1>5 DEF CrashDelivery
  <2> QED
      BY <2>1, UnseenStepsImplement
<1>6. ASSUME NEW r \in Deliveries, DeliveryLeaseExpires(r) \/ StopDelivery(r) \/ ResumeDelivery(r) PROVE ContractStep
    BY <1>6, RowsImplement
<1>7. CASE BaseAdvances
  <2>1. UNCHANGED <<delivery, files, staging>> /\ forge'.branches = forge.branches /\ forge'.pulls = forge.pulls
      BY <1>7 DEF BaseAdvances, DeliveryInv, DeliveryTypeOK
  <2> QED
      BY <2>1, UnseenStepsImplement
<1>8. CASE UNCHANGED deliveryVars
    BY <1>8, UnseenStepsImplement DEF deliveryVars
<1> QED
    BY <1>2, <1>3, <1>4, <1>5, <1>6, <1>7, <1>8 DEF DeliveryNext

LEMMA DeliveryInitImplements == DeliveryInit => Contract!ContractInit
<1> SUFFICES ASSUME DeliveryInit PROVE Contract!ContractInit
    OBVIOUS
<1>1. \A a \in ReleaseActions : ~Stored(ArtifactPaths(a))
    BY StoredFiles, PathsOf DEF DeliveryInit
<1>2. \A r \in Deliveries : ~(delivery[r].released > 0)
    BY DEF DeliveryInit
<1> QED
    BY <1>1, <1>2 DEF DeliveryInit, Contract!ContractInit

\* The deliver stage implements the release contract: under any number of
\* executors, crashes, lost leases and repeats the durable effects of an
\* action appear in the contract's order, staging moves only from the
\* release the action was told to replace, and nothing is reported delivered
\* before staging has served it.
THEOREM DeliveryImplementsContract == DeliverySpec => ImplementsReleaseContract
BY DeliveryInitImplements, DeliveryStepImplements, DeliveryIsSound, PTL
DEF DeliverySpec, ImplementsReleaseContract, Contract!ContractSpec, ContractStep

-----------------------------------------------------------------------------
(* What the release contract says about a delivery *)

\* Whatever is there has what comes before it: a pull request its branch, an
\* artifact its pull request, a release its artifact, a reported delivery its
\* release; and staging serves a release.
EffectsInOrder ==
    /\ forge.pulls \subseteq forge.branches /\ Archived \subseteq forge.pulls
    /\ staging.past \subseteq Archived /\ Delivered \subseteq staging.past
    /\ staging.current # None => staging.current \in staging.past

\* Nothing a delivery published is taken back, and staging moves only from
\* the release the delivery was told to replace.
EffectsStay ==
    [][/\ forge.branches \subseteq forge'.branches /\ forge.pulls \subseteq forge'.pulls
       /\ Archived \subseteq Archived' /\ staging.past \subseteq staging'.past /\ Delivered \subseteq Delivered'
       /\ staging'.current # staging.current =>
             \E a \in ReleaseActions : staging'.current = a /\ staging.current = ExpectedRelease[a[1]]]_deliveryVars

\* A step of the contract keeps the order, adds to what there is, and moves
\* staging only as told.
LEMMA ContractStepKeeps ==
    ASSUME EffectsInOrder, ContractStep
    PROVE  /\ EffectsInOrder'
           /\ forge.branches \subseteq forge'.branches /\ forge.pulls \subseteq forge'.pulls
           /\ Archived \subseteq Archived' /\ staging.past \subseteq staging'.past /\ Delivered \subseteq Delivered'
           /\ staging'.current # staging.current =>
                 \E a \in ReleaseActions : staging'.current = a /\ staging.current = ExpectedRelease[a[1]]
<1>1. CASE UNCHANGED Contract!contractVars
    BY <1>1 DEF Contract!contractVars, EffectsInOrder, Archived, Delivered
<1>2. ASSUME NEW a \in ReleaseActions, Contract!Commit(a)
      PROVE  /\ forge'.branches = forge.branches \cup {a}
             /\ UNCHANGED <<forge.pulls, staging.past, staging.current, Archived, Delivered>>
    BY <1>2 DEF Contract!Commit, Archived, Delivered
<1>3. ASSUME NEW a \in ReleaseActions, Contract!Propose(a)
      PROVE  /\ forge'.pulls = forge.pulls \cup {a} /\ a \in forge.branches
             /\ UNCHANGED <<forge.branches, staging.past, staging.current, Archived, Delivered>>
    BY <1>3 DEF Contract!Propose, Archived, Delivered
<1>4. ASSUME NEW a \in ReleaseActions, Contract!Archive(a)
      PROVE  /\ Archived' = Archived \cup {a} /\ a \in forge.pulls
             /\ UNCHANGED <<forge.branches, forge.pulls, staging.past, staging.current, Delivered>>
    BY <1>4 DEF Contract!Archive, Archived, Delivered
<1>5. ASSUME NEW a \in ReleaseActions, Contract!Select(a)
      PROVE  /\ staging'.past = staging.past \cup {a} /\ a \in Archived
             /\ staging'.current = a /\ staging.current \in {a, ExpectedRelease[a[1]]}
             /\ UNCHANGED <<forge.branches, forge.pulls, Archived, Delivered>>
    BY <1>5 DEF Contract!Select, Archived, Delivered
<1>6. ASSUME NEW a \in ReleaseActions, Contract!Deliver(a)
      PROVE  /\ Delivered' = Delivered \cup {a} /\ a \in staging.past
             /\ UNCHANGED <<forge.branches, forge.pulls, staging.past, staging.current, Archived>>
    BY <1>6 DEF Contract!Deliver, Archived, Delivered
<1>7. CASE Contract!ContractNext
  <2>1. PICK a \in ReleaseActions : \/ Contract!Commit(a) \/ Contract!Propose(a) \/ Contract!Archive(a)
                                    \/ Contract!Select(a) \/ Contract!Deliver(a)
      BY <1>7 DEF Contract!ContractNext
  <2>2. CASE Contract!Commit(a)
      BY <1>2, <2>2 DEF EffectsInOrder
  <2>3. CASE Contract!Propose(a)
      BY <1>3, <2>3 DEF EffectsInOrder
  <2>4. CASE Contract!Archive(a)
      BY <1>4, <2>4 DEF EffectsInOrder
  <2>5. CASE Contract!Select(a)
      BY <1>5, <2>5 DEF EffectsInOrder
  <2>6. CASE Contract!Deliver(a)
      BY <1>6, <2>6 DEF EffectsInOrder
  <2> QED
      BY <2>1, <2>2, <2>3, <2>4, <2>5, <2>6
<1> QED
    BY <1>1, <1>7 DEF ContractStep

\* The contract starts in order.
LEMMA ContractInitOrder == Contract!ContractInit => EffectsInOrder
BY DEF Contract!ContractInit, EffectsInOrder, Archived, Delivered

\* The effects of a delivery appear in their order, and a run that reports a
\* delivery has all of them behind it, whichever executors were involved
\* (delivery): what the contract promises, through the refinement.
THEOREM DeliveryEffectsInOrder == DeliverySpec => []EffectsInOrder
BY ContractInitOrder, ContractStepKeeps, DeliveryImplementsContract, PTL
DEF ImplementsReleaseContract, Contract!ContractSpec, ContractStep

\* No crash, retry, lost lease or concurrent executor takes back a published
\* effect or moves staging from a release it was not told to replace.
THEOREM DeliveryEffectsStay == DeliverySpec => EffectsStay
<1>1. EffectsInOrder /\ ContractStep =>
        [/\ forge.branches \subseteq forge'.branches /\ forge.pulls \subseteq forge'.pulls
         /\ Archived \subseteq Archived' /\ staging.past \subseteq staging'.past /\ Delivered \subseteq Delivered'
         /\ staging'.current # staging.current =>
               \E a \in ReleaseActions : staging'.current = a /\ staging.current = ExpectedRelease[a[1]]]_deliveryVars
    BY ContractStepKeeps
<1> QED
    BY <1>1, DeliveryEffectsInOrder, DeliveryImplementsContract, PTL
    DEF ImplementsReleaseContract, Contract!ContractSpec, ContractStep, EffectsStay
=============================================================================
