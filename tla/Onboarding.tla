----------------------------- MODULE Onboarding -----------------------------
(***************************************************************************)
(* The two sheets that write a sequence of rows: registering an agent      *)
(* (components/onboarding/register-agent.tsx) and applying for credit      *)
(* (new-application.tsx), both run by runSteps (lib/onboarding.ts).        *)
(*                                                                         *)
(* A sequence belongs to the submission that began it: it goes on when its *)
(* sheet is closed, and when the page that holds the sheet is left, after  *)
(* which nobody sees how it ends.  A call may be refused, may be lost      *)
(* before the service carries it out, or after.                            *)
(***************************************************************************)
EXTENDS Naturals, Sequences, FiniteSets

CONSTANTS
  Drafts, \* the pieces of evidence an application carries
  MaxRuns \* bound: sequences submitted

ASSUME DraftsAssumption == Drafts \in Nat \ {0}
ASSUME MaxRunsAssumption == MaxRuns \in Nat

Forms == {"register", "apply"}
Runs == 1 .. MaxRuns

VARIABLES
  sheet,       \* sheet[f]: what the page holds of the sheet f
  run,         \* run[r]: the r-th sequence submitted
  submissions, \* sequences submitted so far
  newAgent,    \* the page's newAgentId, 0 for none
  agents,      \* agents in the workspace: 1 .. agents
  passports,   \* those with a passport
  verified,    \* those whose passport was found valid
  tasks,       \* tasks in the workspace: 1 .. tasks
  evidence,    \* evidence[t]: pieces stored for task t
  mandates,    \* tasks with a revenue mandate
  applications \* applications submitted, each of an agent and a task

formVars == <<sheet, newAgent>>
serviceVars == <<agents, passports, verified, tasks, evidence, mandates, applications>>
deskVars == <<sheet, run, submissions, newAgent, agents, passports, verified, tasks,
              evidence, mandates, applications>>

-----------------------------------------------------------------------------
(* The sequences.                                                           *)

\* mutated form: the application before the mandate
StepsAppliedEarly(f) ==
  IF f = "register" THEN <<"agent", "passport", "verify">>
  ELSE <<"task", "evidence", "application", "mandate">>

Steps(f) ==
  IF f = "register" THEN <<"agent", "passport", "verify">>
  ELSE <<"task", "evidence", "mandate", "application">>

\* agent, row: the agent an application is for; the row the first step created.
NoRun == [form |-> "register", phase |-> "none", step |-> 1, part |-> 0, agent |-> 0, row |-> 0]

StartedRun(f, agent) ==
  [form |-> f, phase |-> "sent", step |-> 1, part |-> 0, agent |-> agent, row |-> 0]

Under(r) == run[r].phase \in {"sent", "made"}

StepOf(r) == Steps(run[r].form)[run[r].step]

\* The list that onProgress reports: steps before the current one are done.
StepStates(r) ==
  [i \in 1 .. Len(Steps(run[r].form)) |->
     CASE i < run[r].step \/ run[r].phase = "ok" -> "done"
       [] i = run[r].step /\ Under(r) -> "running"
       [] i = run[r].step /\ run[r].phase = "failed" -> "failed"
       [] OTHER -> "pending"]

\* mutated form: the loop does not end with the last step
AdvancedRepeating(row) ==
  IF row.form = "apply" /\ row.step = 2 /\ row.part + 1 < Drafts
  THEN [row EXCEPT !.phase = "sent", !.part = row.part + 1]
  ELSE IF row.step = Len(Steps(row.form)) THEN [row EXCEPT !.phase = "sent"]
  ELSE [row EXCEPT !.phase = "sent", !.step = row.step + 1, !.part = 0]

\* The next state of a run whose call was answered: the evidence step calls once
\* per draft, every other step once.
Advanced(row) ==
  IF row.form = "apply" /\ row.step = 2 /\ row.part + 1 < Drafts
  THEN [row EXCEPT !.phase = "sent", !.part = row.part + 1]
  ELSE IF row.step = Len(Steps(row.form)) THEN [row EXCEPT !.phase = "ok", !.part = 0]
  ELSE [row EXCEPT !.phase = "sent", !.step = row.step + 1, !.part = 0]

\* "Stops at the first failure and leaves every earlier step marked done."
Stopped(row) == [row EXCEPT !.phase = "failed"]

-----------------------------------------------------------------------------
(* The sheets.                                                              *)

\* run: the submission the sheet shows, 0 for none; done: the row it ended with.
ClosedSheet == [open |-> FALSE, run |-> 0, done |-> 0]

DeskInit ==
  /\ sheet = [f \in Forms |-> ClosedSheet]
  /\ run = [r \in Runs |-> NoRun]
  /\ submissions = 0
  /\ newAgent = 0
  /\ agents = 0 /\ passports = {} /\ verified = {}
  /\ tasks = 0 /\ evidence = [t \in Runs |-> 0] /\ mandates = {} /\ applications = {}

Busy(f) == sheet[f].run # 0 /\ Under(sheet[f].run)

\* An open sheet covers the page, so that there is one at most.
Open(f) ==
  /\ \A g \in Forms : ~sheet[g].open
  /\ sheet' = [sheet EXCEPT ![f].open = TRUE]
  /\ UNCHANGED <<run, submissions, newAgent>> /\ UNCHANGED serviceVars

\* Escape, the backdrop, Cancel or Done: the form's state stays, and so does a
\* sequence under way.
Close(f) ==
  /\ sheet[f].open
  /\ sheet' = [sheet EXCEPT ![f].open = FALSE]
  /\ UNCHANGED <<run, submissions, newAgent>> /\ UNCHANGED serviceVars

\* The page is left, or reloaded: its state is gone, its sequences are not.
Leave ==
  /\ sheet # [f \in Forms |-> ClosedSheet] \/ newAgent # 0
  /\ sheet' = [f \in Forms |-> ClosedSheet]
  /\ newAgent' = 0
  /\ UNCHANGED <<run, submissions>> /\ UNCHANGED serviceVars

\* The agents an application may be for: the one just registered, or any that
\* the list shows with a passport.
Eligible == passports \cup (IF newAgent = 0 THEN {} ELSE {newAgent})

\* submit(): the first call is sent.
SubmitForm(f) ==
  /\ sheet[f].open /\ ~Busy(f) /\ sheet[f].done = 0
  /\ submissions < MaxRuns
  /\ submissions' = submissions + 1
  /\ \E agent \in IF f = "apply" THEN Eligible ELSE {0} :
       run' = [run EXCEPT ![submissions + 1] = StartedRun(f, agent)]
  /\ sheet' = [sheet EXCEPT ![f].run = submissions + 1]
  /\ UNCHANGED newAgent /\ UNCHANGED serviceVars

\* mutated form: every submission goes on with the newest row
RowOfNewest(r) == IF run[r].form = "register" THEN agents ELSE tasks

\* createdAgentId, taskId: a variable of the submission.
RowOf(r) == run[r].row

\* The row a sequence goes on with: the one its first step creates.
RowAfter(r) ==
  IF StepOf(r) = "agent" THEN agents + 1
  ELSE IF StepOf(r) = "task" THEN tasks + 1
  ELSE run[r].row

\* The service carries the call of run r out.
Carry(r) ==
  /\ run[r].phase = "sent"
  /\ LET step == StepOf(r) IN
     /\ agents' = IF step = "agent" THEN agents + 1 ELSE agents
     /\ passports' = IF step = "passport" THEN passports \cup {RowOf(r)} ELSE passports
     /\ tasks' = IF step = "task" THEN tasks + 1 ELSE tasks
     /\ evidence' =
          IF step = "evidence" THEN [evidence EXCEPT ![RowOf(r)] = evidence[RowOf(r)] + 1]
          ELSE evidence
     /\ mandates' = IF step = "mandate" THEN mandates \cup {RowOf(r)} ELSE mandates
     /\ applications' =
          IF step = "application"
          THEN applications \cup {[agent |-> run[r].agent, task |-> RowOf(r)]}
          ELSE applications
     /\ run' = [run EXCEPT ![r] = [run[r] EXCEPT !.phase = "made", !.row = RowAfter(r)]]
  /\ UNCHANGED <<verified, submissions>> /\ UNCHANGED formVars

\* A sequence that ends well tells its sheet, and the page the agent's id, if
\* they are still there.
Told(r) ==
  IF run'[r].phase = "ok" /\ sheet[run[r].form].run = r
  THEN /\ sheet' = [sheet EXCEPT ![run[r].form].done = run[r].row]
       /\ newAgent' = IF run[r].form = "register" THEN run[r].row ELSE newAgent
  ELSE UNCHANGED formVars

\* mutated form: a passport that fails its checks is a warning
PassesAnyway(step, valid) == TRUE

\* "A passport that fails its own checks is a failed registration."
Passes(step, valid) == step # "verify" \/ valid

\* The answer reaches the runner; verifying also says whether the passport is valid.
Answer(r) ==
  /\ run[r].phase = "made"
  /\ \E valid \in BOOLEAN :
       /\ StepOf(r) # "verify" => valid
       /\ verified' = IF StepOf(r) = "verify" /\ valid THEN verified \cup {run[r].row}
                      ELSE verified
       /\ run' = [run EXCEPT ![r] =
            IF Passes(StepOf(r), valid) THEN Advanced(run[r]) ELSE Stopped(run[r])]
  /\ Told(r)
  /\ UNCHANGED <<submissions, agents, passports, tasks, evidence, mandates, applications>>

\* The call throws: refused by the service, or lost before it or on the way back.
Throw(r) ==
  /\ Under(r)
  /\ run' = [run EXCEPT ![r] = Stopped(run[r])]
  /\ Told(r)
  /\ UNCHANGED submissions /\ UNCHANGED serviceVars

DeskNext ==
  \/ Leave
  \/ \E f \in Forms : Open(f) \/ Close(f) \/ SubmitForm(f)
  \/ \E r \in Runs : Carry(r) \/ Answer(r) \/ Throw(r)

\* Calls are answered: the browser and the proxy see to that.
DeskFairness ==
  \A r \in Runs : WF_deskVars(Carry(r) \/ Throw(r)) /\ WF_deskVars(Answer(r) \/ Throw(r))

DeskSpec == DeskInit /\ [][DeskNext]_deskVars /\ DeskFairness

-----------------------------------------------------------------------------
DeskRuns ==
  [form : Forms, phase : {"none", "sent", "made", "ok", "failed"}, step : 1 .. 4,
   part : Nat, agent : Nat, row : Nat]

\* Sheets, sequences and rows keep their shape, and there are no more agents and
\* tasks than sequences that began: "one submission is one agent" at most.
DeskTypeOK ==
  /\ sheet \in [Forms -> [open : BOOLEAN, run : 0 .. MaxRuns, done : Nat]]
  /\ run \in [Runs -> DeskRuns]
  /\ submissions \in 0 .. MaxRuns
  /\ newAgent \in 0 .. agents
  /\ agents \in Nat /\ tasks \in Nat /\ agents + tasks <= submissions
  /\ passports \in SUBSET (1 .. agents)
  /\ verified \in SUBSET (1 .. agents)
  /\ evidence \in [Runs -> Nat]
  /\ mandates \in SUBSET (1 .. tasks)
  /\ applications \in SUBSET [agent : 1 .. agents, task : 1 .. tasks]

\* The row that a step leaves behind.
LeftBehind(r, step) ==
  CASE step = "agent" -> run[r].row \in 1 .. agents
    [] step = "passport" -> run[r].row \in passports
    [] step = "verify" -> run[r].row \in verified
    [] step = "task" -> run[r].row \in 1 .. tasks
    [] step = "evidence" -> evidence[run[r].row] >= Drafts
    [] step = "mandate" -> run[r].row \in mandates
    [] step = "application" -> \E a \in applications : a.task = run[r].row

\* "A failure at step three has already created two real rows, and the caller has
\* to be able to say which ones" (lib/onboarding.ts:14): a step that a sheet marks
\* done has left its row behind, whatever failed and whoever else was writing.
StepsTellTheTruth ==
  \A f \in Forms : sheet[f].run # 0 =>
    LET r == sheet[f].run IN
    \A i \in DOMAIN StepStates(r) :
      StepStates(r)[i] = "done" => LeftBehind(r, Steps(run[r].form)[i])

\* An application stands on what its sheet wrote before it: a task with every
\* piece of evidence and a mandate, and an agent that holds a passport.
ApplicationsAreBacked ==
  \A a \in applications :
    /\ evidence[a.task] >= Drafts
    /\ a.task \in mandates
    /\ a.agent \in passports

\* An agent that a page takes for registered holds a passport that passed its
\* checks.
RegisteredIsVerified ==
  /\ newAgent # 0 => newAgent \in passports /\ newAgent \in verified
  /\ sheet["register"].done # 0 => sheet["register"].done \in verified

\* A sheet that is busy becomes free, or its page is left.
SequencesEnd == \A f \in Forms : Busy(f) ~> ~Busy(f)
=============================================================================
