---------------------------- MODULE StageWorker -----------------------------
(***************************************************************************)
(* One worker process inside RunOne for the stages build, evaluate and     *)
(* diagnose (internal/sdlcworker), with the pinned model client            *)
(* (internal/agentmodel), the sandbox and the content-addressed spool      *)
(* (internal/artifacts) it leaves evidence in.                             *)
(*                                                                         *)
(* Every piece of evidence is written to the local spool before it is sent *)
(* to the gateway, and a result cites what the gateway acknowledged.  The  *)
(* process may die anywhere and run the stage again; the gateway may       *)
(* refuse a call; the local model may be replaced during a call.           *)
(***************************************************************************)
EXTENDS Common, Sequences, FiniteSets

CONSTANTS
    MaxOutputTokens,    \* package limit on a response
    ReplyTokens,        \* token counts a response may report
    MaxDisclosedFiles,  \* limit of builderFiles
    FileCounts,         \* numbers of files a packet may allow
    MaxStageFaults      \* bound: crashes, refused calls, replaced models

ASSUME StageAssumption ==
    /\ MaxOutputTokens \in Nat /\ ReplyTokens \subseteq Nat
    /\ MaxDisclosedFiles \in Nat /\ FileCounts \subseteq Nat /\ MaxStageFaults \in Nat
    /\ None \notin {"succeeded", "failed", "blocked"}

Evidence == {"prompt", "response", "manifest", "patch", "receipt", "check_output"}
WorkStages == {"build", "evaluate", "diagnose"}
ModelEvidenceOf == <<"prompt", "response", "manifest">>

VARIABLES
    work,       \* the worker's place in RunOne and the result it is building; history:
                \* what Ollama served when it answered, and whether the pinned model
                \* came back between the answer and the second check
    spool,      \* [Evidence -> "absent" | "torn" | "whole"]: files under their digest
    held,       \* evidence the gateway recorded for the step
    inventory,  \* does Ollama still serve the pinned digest
    hiccups     \* how many faults have happened

stageVars == <<work, spool, held, inventory, hiccups>>

IdleWork == [pc |-> "idle", stage |-> "build", todo |-> << >>, then |-> None, cited |-> {},
             temporary |-> "none", tokens |-> 0, bounded |-> FALSE, outcome |-> None,
             answeredBy |-> None, restored |-> FALSE]

StageInit ==
    /\ work = IdleWork
    /\ spool = [e \in Evidence |-> "absent"]
    /\ held = {} /\ inventory = "pinned" /\ hiccups = 0

Hiccup == hiccups < MaxStageFaults /\ hiccups' = hiccups + 1
Finishes(outcome) == work' = [work EXCEPT !.pc = "report", !.outcome = outcome]

\* RunOne: the stage's handler runs on the context of a fresh lease.
BeginStage(stage) ==
    /\ work.pc = "idle"
    /\ work' = [IdleWork EXCEPT !.stage = stage,
                   !.pc = CASE stage = "build" -> "disclose" [] stage = "evaluate" -> "fetch"
                            [] stage = "diagnose" -> "observe"]
    /\ held' = {}
    /\ UNCHANGED <<spool, inventory, hiccups>>

-----------------------------------------------------------------------------
(* put: evidence goes to the spool, then to the gateway                    *)

Puts(evidence, then) == work' = [work EXCEPT !.pc = "spool", !.todo = evidence, !.then = then]

\* LocalStore.Put verifies a file that exists; anything but the exact bytes
\* is unavailable evidence.  A new file starts as a temporary one.
SpoolPut ==
    /\ work.pc = "spool"
    /\ LET e == Head(work.todo)
       IN  CASE spool[e] = "torn" -> Finishes("blocked")
             [] spool[e] = "whole" -> work' = [work EXCEPT !.pc = "send"]
             [] spool[e] = "absent" -> work' = [work EXCEPT !.pc = "write", !.temporary = "torn"]
    /\ UNCHANGED <<spool, held, inventory, hiccups>>

\* Write, Sync and Close.  A failure ends the put, and the deferred cleanup
\* removes the temporary file; a crash leaves it behind under its own name.
WriteTemporary(complete) ==
    /\ work.pc = "write"
    /\ IF complete
          THEN work' = [work EXCEPT !.pc = "publish", !.temporary = "whole"] /\ UNCHANGED hiccups
          ELSE Finishes("blocked") /\ Hiccup
    /\ UNCHANGED <<spool, held, inventory>>

\* Rename: what the temporary file holds is what the digest names from now
\* on.  When it fails the digest is read, and is not there.
Publish(renamed) ==
    /\ work.pc = "publish"
    /\ IF renamed
          THEN /\ spool' = [spool EXCEPT ![Head(work.todo)] = work.temporary]
               /\ work' = [work EXCEPT !.pc = "send"] /\ UNCHANGED hiccups
          ELSE Finishes("blocked") /\ Hiccup /\ UNCHANGED spool
    /\ UNCHANGED <<held, inventory>>

\* sdlc_artifact_put under the lease.
SendArtifact ==
    /\ work.pc = "send"
    /\ LET e == Head(work.todo)
       IN  /\ held' = held \cup {e}
           /\ work' = [work EXCEPT !.cited = @ \cup {e}, !.todo = Tail(@),
                          !.pc = IF Len(work.todo) = 1 THEN work.then ELSE "spool"]
    /\ UNCHANGED <<spool, inventory, hiccups>>

\* The gateway refuses or its answer is lost; it may have stored the bytes.
SendFails ==
    /\ work.pc = "send" /\ Hiccup
    /\ Finishes("blocked")
    /\ \/ held' = held \cup {Head(work.todo)}
       \/ UNCHANGED held
    /\ UNCHANGED <<spool, inventory>>

-----------------------------------------------------------------------------
(* build and diagnose                                                      *)

\* builderFiles: the allowed files, within the disclosure limit.
DiscloseFiles(n) ==
    /\ work.pc = "disclose"
    /\ IF n > MaxDisclosedFiles THEN Finishes("blocked") ELSE work' = [work EXCEPT !.pc = "check"]
    /\ UNCHANGED <<spool, held, inventory, hiccups>>

\* observe: every source complete and every criterion compared; without a
\* demonstrated violation there is nothing to diagnose.
ObserveSources ==
    /\ work.pc = "observe"
    /\ \/ work' = [work EXCEPT !.pc = "check"]
       \/ Finishes("blocked")
    /\ UNCHANGED <<spool, held, inventory, hiccups>>

\* CheckModel before the request.
CheckModel ==
    /\ work.pc = "check"
    /\ work' = IF inventory = "pinned" THEN [work EXCEPT !.pc = "generate"]
               ELSE [work EXCEPT !.pc = "spool", !.todo = ModelEvidenceOf, !.then = "fail"]
    /\ UNCHANGED <<spool, held, inventory, hiccups>>

Bounded(tokens) == tokens >= 1 /\ tokens <= MaxOutputTokens

\* The response: a complete one with counts inside the package's limits, or
\* one that is refused but whose counts are reported all the same.
Generate(tokens, done) ==
    /\ work.pc = "generate"
    /\ work' = [work EXCEPT !.pc = "recheck", !.tokens = tokens, !.bounded = done /\ Bounded(tokens),
                   !.answeredBy = inventory]
    /\ UNCHANGED <<spool, held, inventory, hiccups>>

\* Mutant: the inventory is not asked again after the response.
Recheck_Skipped(ok) == ok

\* CheckModel again: the digest may have changed under the request.
Recheck(ok) == ok /\ inventory = "pinned"

CheckModelAgain ==
    /\ work.pc = "recheck"
    /\ work' = [work EXCEPT !.pc = "spool", !.todo = ModelEvidenceOf,
                   !.then = IF Recheck(work.bounded) THEN "decode" ELSE "fail"]
    /\ UNCHANGED <<spool, held, inventory, hiccups>>

\* generate, or the sandbox, returned an error after its evidence was kept.
GenerationFailed ==
    /\ work.pc = "fail"
    /\ Finishes("blocked")
    /\ UNCHANGED <<spool, held, inventory, hiccups>>

\* The typed proposal.  A builder's patch is put before the result is built.
DecodeProposal(valid) ==
    /\ work.pc = "decode"
    /\ IF ~valid THEN Finishes("blocked")
       ELSE IF work.stage = "build" THEN Puts(<<"patch">>, "succeed")
       ELSE Finishes("succeeded")
    /\ UNCHANGED <<spool, held, inventory, hiccups>>

-----------------------------------------------------------------------------
(* evaluate                                                                *)

\* The candidate is fetched by digest and verified in the sandbox; without a
\* raw receipt there is nothing to put, and a sandbox that broke may leave one.
VerifyCandidate(verdict) ==
    /\ work.pc = "fetch"
    /\ IF verdict = "unavailable" THEN Finishes("blocked")
       ELSE IF verdict = "broken" THEN Puts(<<"receipt">>, "fail")
       ELSE Puts(<<"receipt", "check_output">>, IF verdict = "accepted" THEN "succeed" ELSE "reject")
    /\ UNCHANGED <<spool, held, inventory, hiccups>>

Conclude ==
    /\ work.pc \in {"succeed", "reject"}
    /\ Finishes(IF work.pc = "succeed" THEN "succeeded" ELSE "failed")
    /\ UNCHANGED <<spool, held, inventory, hiccups>>

-----------------------------------------------------------------------------
(* The result, and faults                                                  *)

CompleteStage ==
    /\ work.pc = "report"
    /\ work' = [work EXCEPT !.pc = "done"]
    /\ UNCHANGED <<spool, held, inventory, hiccups>>

\* The next polling round, or a process started again after a crash.
LeaveStage ==
    /\ work.pc = "done"
    /\ work' = IdleWork
    /\ UNCHANGED <<spool, held, inventory, hiccups>>

CrashStage ==
    /\ work.pc \notin {"idle", "done"} /\ Hiccup
    /\ work' = IdleWork
    /\ UNCHANGED <<spool, held, inventory>>

\* Someone pulls another model under the pinned name, or the pinned one back.
ModelReplaced ==
    /\ Hiccup
    /\ inventory' = IF inventory = "pinned" THEN "other" ELSE "pinned"
    /\ work' = [work EXCEPT !.restored = @ \/ (work.pc = "recheck" /\ inventory = "other")]
    /\ UNCHANGED <<spool, held>>

StageNext ==
    \/ \E stage \in WorkStages : BeginStage(stage)
    \/ SpoolPut \/ SendArtifact \/ SendFails
    \/ \E complete \in BOOLEAN : WriteTemporary(complete)
    \/ \E renamed \in BOOLEAN : Publish(renamed)
    \/ \E n \in FileCounts : DiscloseFiles(n)
    \/ ObserveSources \/ CheckModel \/ CheckModelAgain \/ GenerationFailed
    \/ \E t \in ReplyTokens, done \in BOOLEAN : Generate(t, done)
    \/ \E valid \in BOOLEAN : DecodeProposal(valid)
    \/ \E verdict \in {"accepted", "rejected", "broken", "unavailable"} : VerifyCandidate(verdict)
    \/ Conclude \/ CompleteStage \/ LeaveStage \/ CrashStage \/ ModelReplaced

StageSpec == StageInit /\ [][StageNext]_stageVars

-----------------------------------------------------------------------------
(* Properties *)

WorkRow ==
    [pc : {"idle", "disclose", "fetch", "observe", "spool", "write", "publish", "send", "check",
           "generate", "recheck", "decode", "fail", "succeed", "reject", "report", "done"},
     stage : WorkStages, todo : Seq(Evidence), then : {"decode", "fail", "succeed", "reject", None},
     cited : SUBSET Evidence, temporary : {"none", "torn", "whole"}, tokens : ReplyTokens \cup {0},
     bounded : BOOLEAN, outcome : {"succeeded", "failed", "blocked", None},
     answeredBy : {"pinned", "other", None}, restored : BOOLEAN]

\* The worker's record and the stores stay inside their types, and every
\* stage, however it ends, reports an outcome.
StageTypeOK ==
    /\ work \in WorkRow /\ (work.pc \in {"report", "done"} => work.outcome # None)
    /\ spool \in [Evidence -> {"absent", "torn", "whole"}]
    /\ held \subseteq Evidence /\ inventory \in {"pinned", "other"} /\ hiccups \in 0 .. MaxStageFaults

\* "Retain exact evidence locally before transport": whatever the gateway
\* holds has whole bytes in the spool, and no crash and no failed write
\* leaves a damaged file under a digest that a later attempt would trip over
\* (put, LocalStore.Put).
EvidenceSpooledFirst ==
    /\ \A e \in held : spool[e] = "whole"
    /\ \A e \in Evidence : spool[e] # "torn"

EvidenceFor(stage) ==
    CASE stage = "build" -> {"prompt", "response", "manifest", "patch"}
      [] stage = "diagnose" -> {"prompt", "response", "manifest"}
      [] stage = "evaluate" -> {"receipt", "check_output"}

\* A result that claims success cites evidence the gateway holds.  If a model
\* answered, it was the pinned one, within the package's token limit; the one
\* exception is a model that was replaced and put back around the request,
\* which two looks at the inventory cannot tell from one that never moved.  A
\* blocked result may report any count (generate, CheckModel, modelEvidence).
SuccessIsEvidenced ==
    work.pc \in {"report", "done"} /\ work.outcome = "succeeded" =>
        /\ EvidenceFor(work.stage) = work.cited /\ work.cited \subseteq held
        /\ work.stage # "evaluate" =>
              (work.answeredBy = "pinned" \/ work.restored) /\ work.tokens <= MaxOutputTokens

\* Evidence outlives its worker: it is kept before it is sent, and it was sent
\* before a success cites it (put, generate, modelEvidence).
EvidenceIsKept == EvidenceSpooledFirst /\ SuccessIsEvidenced
=============================================================================
