--------------------------- MODULE ApprovalRoute ---------------------------
(***************************************************************************)
(* What the documents promise of every travel request, whichever program   *)
(* keeps it: the five departments sign one after the other, each once, and *)
(* the only way off the route is a rejection by the manager ("Only Manager *)
(* may reject", random.md/WORKFLOW.md:13; "Later departments cannot        *)
(* reject", backend.md/README.md:296).                                     *)
(*                                                                         *)
(* Neither RequestLifecycle (the server) nor DevelopmentRepository (the    *)
(* browser's stand-in for it) implements Spec: both let timing reject as   *)
(* well.  They implement SpecButForTiming, which allows that one step more *)
(* and nothing else.                                                       *)
(***************************************************************************)

CONSTANT Requests

VARIABLES
    stage,   \* stage[r]: where request r is, "none" before it is submitted
    signed   \* signed[r]: the departments that signed it

vars == <<stage, signed>>

ReviewStages == {"manager-review", "pr-review", "transportation-review", "timing-review",
                 "salary-finalization"}

Departments == {"manager", "pr", "transportation", "timing", "salary"}

\* Whose signature a stage waits for, and where that signature leads.
Department ==
    [s \in ReviewStages |->
        CASE s = "manager-review" -> "manager"
          [] s = "pr-review" -> "pr"
          [] s = "transportation-review" -> "transportation"
          [] s = "timing-review" -> "timing"
          [] s = "salary-finalization" -> "salary"]

After ==
    [s \in ReviewStages |->
        CASE s = "manager-review" -> "pr-review"
          [] s = "pr-review" -> "transportation-review"
          [] s = "transportation-review" -> "timing-review"
          [] s = "timing-review" -> "salary-finalization"
          [] s = "salary-finalization" -> "completed"]

\* Which signatures a request carries at a stage.
SignedAt(s) ==
    CASE s = "pr-review" -> {"manager"}
      [] s = "transportation-review" -> {"manager", "pr"}
      [] s = "timing-review" -> {"manager", "pr", "transportation"}
      [] s = "salary-finalization" -> Departments \ {"salary"}
      [] s = "completed" -> Departments
      [] OTHER -> {}

MayCancel == {"manager-review"}

\* A request has the signatures of its stage, a cancelled one those of the stage
\* at which it left the route.
InTurn(r, leaving) ==
    \/ stage[r] \in ReviewStages \union {"none", "completed"} /\ signed[r] = SignedAt(stage[r])
    \/ stage[r] = "cancelled" /\ \E s \in leaving : signed[r] = SignedAt(s)

Init ==
    /\ stage \in [Requests -> ReviewStages \union {"none", "completed", "cancelled"}]
    /\ signed \in [Requests -> SUBSET Departments]
    /\ \A r \in Requests : InTurn(r, MayCancel)

Submit(r) ==
    /\ stage[r] = "none"
    /\ stage' = [stage EXCEPT ![r] = "manager-review"]
    /\ UNCHANGED signed

Sign(r) ==
    /\ stage[r] \in ReviewStages
    /\ stage' = [stage EXCEPT ![r] = After[stage[r]]]
    /\ signed' = [signed EXCEPT ![r] = @ \union {Department[stage[r]]}]

Leave(r, s) ==
    /\ stage[r] = s
    /\ stage' = [stage EXCEPT ![r] = "cancelled"]
    /\ UNCHANGED signed

Cancel(r) == \E s \in MayCancel : Leave(r, s)

Next == \E r \in Requests : Submit(r) \/ Sign(r) \/ Cancel(r)

Spec == Init /\ [][Next]_vars

-----------------------------------------------------------------------------
(***************************************************************************)
(* What the programs keep of it: canReject of workflowService.ts and       *)
(* reject of developmentRepository.ts also let timing reject, which the    *)
(* documents exclude.                                                      *)
(***************************************************************************)

TimingRejects(r) == Leave(r, "timing-review")

NextButForTiming == Next \/ \E r \in Requests : TimingRejects(r)

SpecButForTiming == Init /\ [][NextButForTiming]_vars

CancelledAt == MayCancel \union {"timing-review"}

\* A request is paid only with all five signatures, one under review carries
\* exactly those of the departments before its stage, and a cancelled one those
\* it had when the manager or, against the documents, timing rejected it.
SignedInTurn ==
    /\ stage \in [Requests -> ReviewStages \union {"none", "completed", "cancelled"}]
    /\ signed \in [Requests -> SUBSET Departments]
    /\ \A r \in Requests : InTurn(r, CancelledAt)
=============================================================================
