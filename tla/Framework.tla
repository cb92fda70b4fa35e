------------------------------ MODULE Framework ------------------------------
(***************************************************************************)
(* framework_bridge.c: the evidence the process publishes about itself.    *)
(* A receipt is accepted by the nxcompat registry, its kind is marked as   *)
(* published, and the publication that completes the trio runs the READY   *)
(* gate.  Nothing here takes a lock: the graphics receipt comes from the   *)
(* thread that makes the first context current, the audio receipt from the *)
(* thread that opens the OpenSL output, the input receipt from main().  A  *)
(* publication is therefore a sequence of steps that interleave; the log   *)
(* call of evaluate(), which locks stderr, orders each thread's mark       *)
(* before its reads of the other marks.                                    *)
(*                                                                         *)
(* The registry and its evaluation are external: what they answer is a     *)
(* choice.                                                                 *)
(***************************************************************************)

Receipts == {"graphics", "input", "audio"}

VARIABLES
  fwUp,       \* framework.initialized, with its registry
  contract,   \* framework.audio_contract_validated
  published,  \* the kinds whose *_published flag is set
  ready,      \* framework.ready_validated
  gate,       \* gate[k]: how far the publication of kind k has come
  answer      \* answer[k]: what the last publication of kind k returned

fwVars == <<fwUp, contract, published, ready, gate, answer>>

GateSteps == {"idle", "flags", "latch", "evaluate"}
Answers   == {"none", "ok", "refused"}

FwTypeOK ==
  /\ fwUp \in BOOLEAN /\ contract \in BOOLEAN /\ ready \in BOOLEAN
  /\ published \subseteq Receipts
  /\ gate \in [Receipts -> GateSteps]
  /\ answer \in [Receipts -> Answers]

FwInit ==
  /\ fwUp = FALSE /\ contract = FALSE /\ ready = FALSE
  /\ published = {}
  /\ gate = [k \in Receipts |-> "idle"]
  /\ answer = [k \in Receipts |-> "none"]

-----------------------------------------------------------------------------
\* ts_framework_preflight

\* validate_audio_contract() refuses: nothing is set up.
ContractRefused ==
  /\ ~fwUp
  /\ UNCHANGED fwVars

\* The probe, the plan or the registry fails after the contract was accepted.
PreflightFails ==
  /\ ~fwUp
  /\ contract' = TRUE
  /\ UNCHANGED <<fwUp, published, ready, gate, answer>>

\* The registry exists; the answer is the evaluation of the PREFLIGHT phase,
\* which its caller reads and which leaves no trace here.
PreflightEvaluated ==
  /\ ~fwUp
  /\ fwUp' = TRUE
  /\ contract' = TRUE
  /\ UNCHANGED <<published, ready, gate, answer>>

-----------------------------------------------------------------------------
\* The publications

\* A report is worth a receipt when the transaction of nxgl ended in its last
\* stage, what it saw is complete, and its three views of the drawable agree:
\* the window that was asked for, the handles and what EGL reported.
GraphicsReportValid(report) ==
  /\ report.selected /\ report.complete
  /\ \/ report.owner = "sdl" /\ report.sdlHandles
     \/ report.owner = "raw" /\ ~report.sdlHandles /\ report.nativeDisplay
  /\ report.legacy = report.egl
  /\ report.handles = report.egl

\* One publication at a time per kind.
Idle(k) == gate[k] = "idle"

\* The registry took the receipt: mark it, then look at the other marks.
Mark(k) ==
  /\ fwUp /\ Idle(k)
  /\ published' = published \cup {k}
  /\ gate' = [gate EXCEPT ![k] = "flags"]
  /\ answer' = [answer EXCEPT ![k] = "none"]
  /\ UNCHANGED <<fwUp, contract, ready>>

\* An invalid observation, or a receipt the registry does not take.
Refuse(k) ==
  /\ Idle(k)
  /\ answer' = [answer EXCEPT ![k] = "refused"]
  /\ UNCHANGED <<fwUp, contract, published, ready, gate>>

PublishGraphics(report) ==
  \/ GraphicsReportValid(report) /\ Mark("graphics")
  \/ Refuse("graphics")

PublishInput == Mark("input") \/ Refuse("input")

PublishAudio == (contract /\ Mark("audio")) \/ Refuse("audio")

-----------------------------------------------------------------------------
\* maybe_validate_ready and ts_framework_ready

Return(k, value) ==
  /\ gate' = [gate EXCEPT ![k] = "idle"]
  /\ answer' = [answer EXCEPT ![k] = value]

\* READY is validated already, or a receipt is pending: nothing to do.
GatePending(k) ==
  /\ gate[k] = "flags"
  /\ ready \/ published # Receipts
  /\ Return(k, "ok")
  /\ UNCHANGED <<fwUp, contract, published, ready>>

\* The trio is complete: call ts_framework_ready().
GateComplete(k) ==
  /\ gate[k] = "flags"
  /\ ~ready /\ published = Receipts
  /\ gate' = [gate EXCEPT ![k] = "latch"]
  /\ UNCHANGED <<fwUp, contract, published, ready, answer>>

\* Another publication validated READY in the meantime.
GateLate(k) ==
  /\ gate[k] = "latch" /\ ready
  /\ Return(k, "ok")
  /\ UNCHANGED <<fwUp, contract, published, ready>>

GateEvaluate(k) ==
  /\ gate[k] = "latch" /\ ~ready
  /\ gate' = [gate EXCEPT ![k] = "evaluate"]
  /\ UNCHANGED <<fwUp, contract, published, ready, answer>>

GateAccept(k) ==
  /\ gate[k] = "evaluate"
  /\ ready' = TRUE
  /\ Return(k, "ok")
  /\ UNCHANGED <<fwUp, contract, published>>

\* Mutant: the answer of the evaluation is not returned.
GateRejectUnheard(k) ==
  /\ gate[k] = "evaluate"
  /\ Return(k, "ok")
  /\ UNCHANGED <<fwUp, contract, published, ready>>

\* Mutant: a refused evaluation takes READY back.
GateRejectShuts(k) ==
  /\ gate[k] = "evaluate"
  /\ ready' = FALSE
  /\ Return(k, "refused")
  /\ UNCHANGED <<fwUp, contract, published>>

\* A capability is missing or pending: the marks stay, the gate stays shut.
GateReject(k) ==
  /\ gate[k] = "evaluate"
  /\ Return(k, "refused")
  /\ UNCHANGED <<fwUp, contract, published, ready>>

GateStep(k) ==
  \/ GatePending(k) \/ GateComplete(k) \/ GateLate(k)
  \/ GateEvaluate(k) \/ GateAccept(k) \/ GateReject(k)

FwNext ==
  \/ ContractRefused \/ PreflightFails \/ PreflightEvaluated
  \/ \E k \in Receipts :
       \/ Mark(k) \/ Refuse(k) \/ GateStep(k)

FwSpec == FwInit /\ [][FwNext]_fwVars

-----------------------------------------------------------------------------
\* Properties

\* No READY is missed: when the last publication of each of the three kinds
\* has answered success, the gate was opened by one of them, whatever the
\* order and the interleaving in which they arrived.
CompleteMeansReady ==
  (\A k \in Receipts : answer[k] = "ok") => ready

\* The bridge implements the gate it promises: it opens on the complete set
\* only, and no later publication, accepted or refused, closes it.
Gate == INSTANCE ReadyGate WITH Receipts <- Receipts, received <- published,
                               open <- ready

GateHolds == Gate!Spec
=============================================================================
