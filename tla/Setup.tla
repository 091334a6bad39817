------------------------------- MODULE Setup -------------------------------
(***************************************************************************)
(* The guided setup: the wizard's tabs (features/setup/SetupWizard.tsx,    *)
(* features/setup/api.ts) and the one OrgSetup row behind them             *)
(* (routes/setup.ts), which a save reads, merges in memory and writes back *)
(* whole.                                                                  *)
(*                                                                         *)
(* An answer is Blank, Partial (typed, and refused by the schema of a      *)
(* required step) or complete, in which case it is named after the tab it  *)
(* was typed in.  The steps the wizard requires are those whose schema     *)
(* has a field without a default.                                          *)
(***************************************************************************)
EXTENDS Naturals

CONSTANTS
    Tab,                    \* browser tabs of owners and administrators
    LastStep, Required,         \* SETUP_STEPS, by position, and REQUIRED_STEPS
    Blank, Partial, Unset,   \* no answers yet, incomplete ones, nothing
    MaxSetupInputs,         \* bound: answers typed, saves and launches
    MaxSetupFaults          \* bound: requests that die or whose answer is lost

Step == 1..LastStep

SetupAnswer == Tab \cup {Blank, Partial}
\* drafted is history: the completed steps whose answers a draft has replaced.
SetupRow == [status : {"in_progress", "complete"}, completed : SUBSET Step, skipped : SUBSET Step,
             answers : [Step -> SetupAnswer], drafted : SUBSET Step]

\* Nothing is not a row.
ASSUME SetupAssumption == Unset \notin SetupRow

VARIABLES
    setup,          \* the OrgSetup row
    tab,            \* the wizard's tabs
    saving,         \* PUT /step of each tab
    launching,      \* POST /launch of each tab
    latest,         \* history: the answers written last, by step
    overtaken,      \* history: a save merged into a row that had changed meanwhile
    setupInputs, setupFaults

setupVars == <<setup, tab, saving, launching, latest, overtaken, setupInputs, setupFaults>>

FreshSetup == [status |-> "in_progress", completed |-> {}, skipped |-> {},
          answers |-> [s \in Step |-> Blank], drafted |-> {}]
Closed == [known |-> Unset, draft |-> [s \in Step |-> Unset]]
NoSave == [pc |-> "idle", step |-> Unset, answer |-> Blank, intent |-> "complete", row |-> Unset]
NoLaunch == [pc |-> "idle"]

SetupInit ==
    /\ setup = Unset
    /\ tab = [t \in Tab |-> Closed]
    /\ saving = [t \in Tab |-> NoSave] /\ launching = [t \in Tab |-> NoLaunch]
    /\ latest = [s \in Step |-> Blank] /\ overtaken = FALSE
    /\ setupInputs = 0 /\ setupFaults = 0

Input == setupInputs < MaxSetupInputs /\ setupInputs' = setupInputs + 1
SetupFault == setupFaults < MaxSetupFaults /\ setupFaults' = setupFaults + 1

-----------------------------------------------------------------------------
(* The wizard.  The rail, the back button and the review show any step at any time    *)
(* and save nothing, so which step is on the screen is left out.                      *)

Open(t) == tab[t].known # Unset

\* loadSetup: of two first loads that both find no row, one creates it; the query of the
\* other fails, is tried once more and finds it.
OpenWizard(t) ==
    /\ ~ Open(t)
    /\ setup' = IF setup = Unset THEN FreshSetup ELSE setup
    /\ tab' = [tab EXCEPT ![t].known = setup']
    /\ UNCHANGED <<saving, launching, latest, overtaken, setupInputs, setupFaults>>

TypeAnswer(t, s) ==
    /\ Open(t) /\ Input
    /\ \E a \in {Partial, t} : tab' = [tab EXCEPT ![t].draft[s] = a]
    /\ UNCHANGED <<setup, saving, launching, latest, overtaken, setupFaults>>

CurrentAnswers(t, s) ==
    IF tab[t].draft[s] # Unset THEN tab[t].draft[s] ELSE tab[t].known.answers[s]

\* "Next" and, beside a step that is not required, "Skip"; not while a save is under way.
\* A draft is what the endpoint accepts besides: no screen sends one, another client may.
AskSave(t, s, intent) ==
    /\ Open(t) /\ saving[t].pc = "idle" /\ Input
    /\ intent = "skip" => s \notin Required
    /\ saving' = [saving EXCEPT ![t] =
          [pc |-> "asked", step |-> s, answer |-> CurrentAnswers(t, s),
           intent |-> intent, row |-> Unset]]
    /\ UNCHANGED <<setup, tab, launching, latest, overtaken, setupFaults>>

MissingRequired(row) == Required \ row.completed

AskLaunch(t) ==
    /\ Open(t) /\ launching[t].pc = "idle" /\ Input
    /\ MissingRequired(tab[t].known) = {}
    /\ launching' = [launching EXCEPT ![t].pc = "asked"]
    /\ UNCHANGED <<setup, tab, saving, latest, overtaken, setupFaults>>

\* A saved step becomes the known state; a refused one shows what to fix.
ReceiveSave(t) ==
    /\ saving[t].pc \in {"done", "refused"}
    /\ tab' = IF Open(t) /\ saving[t].pc = "done"
                THEN [tab EXCEPT ![t].known = saving[t].row] ELSE tab
    /\ saving' = [saving EXCEPT ![t] = NoSave]
    /\ UNCHANGED <<setup, launching, latest, overtaken, setupInputs, setupFaults>>

\* A launch closes the wizard; a refused one leaves it open.
ReceiveLaunch(t) ==
    /\ launching[t].pc \in {"done", "refused"}
    /\ tab' = [tab EXCEPT ![t] = IF launching[t].pc = "done" THEN Closed ELSE @]
    /\ launching' = [launching EXCEPT ![t] = NoLaunch]
    /\ UNCHANGED <<setup, saving, latest, overtaken, setupInputs, setupFaults>>

\* Exit, reload, or the way to a provider's consent page: what was typed is gone, what
\* was sent is still under way.
LeaveWizard(t) ==
    /\ Open(t)
    /\ tab' = [tab EXCEPT ![t] = Closed]
    /\ UNCHANGED <<setup, saving, launching, latest, overtaken, setupInputs, setupFaults>>

-----------------------------------------------------------------------------
(* The API *)

Valid(s, a) == s \in Required => a \notin {Blank, Partial}

\* A step is validated before the row is read, and only to complete it.
ReadForSave(t) ==
    /\ saving[t].pc = "asked"
    /\ LET ok == saving[t].intent = "complete" => Valid(saving[t].step, saving[t].answer)
       IN  saving' = [saving EXCEPT ![t].pc = IF ok THEN "read" ELSE "refused",
                                    ![t].row = setup]
    /\ UNCHANGED <<setup, tab, launching, latest, overtaken, setupInputs, setupFaults>>

\* Mutant of Merged: a completed step stays on the list of the skipped ones.
MergedStaysSkipped(row, save) ==
    LET s == save.step
        merged == [row EXCEPT !.answers[s] = save.answer]
    IN  CASE save.intent = "complete" ->
                 [merged EXCEPT !.completed = @ \cup {s}, !.drafted = @ \ {s}]
          [] save.intent = "skip" ->
                 [merged EXCEPT !.skipped = @ \cup {s}, !.completed = @ \ {s},
                                !.drafted = @ \ {s}]
          [] save.intent = "draft" -> [merged EXCEPT !.drafted = row.completed \cap (@ \cup {s})]

\* The columns a save writes, computed from the row it read: a draft leaves the lists alone.
Merged(row, save) ==
    LET s == save.step
        merged == [row EXCEPT !.answers[s] = save.answer]
    IN  CASE save.intent = "complete" ->
                 [merged EXCEPT !.completed = @ \cup {s}, !.skipped = @ \ {s},
                                !.drafted = @ \ {s}]
          [] save.intent = "skip" ->
                 [merged EXCEPT !.skipped = @ \cup {s}, !.completed = @ \ {s},
                                !.drafted = @ \ {s}]
          [] save.intent = "draft" -> [merged EXCEPT !.drafted = row.completed \cap (@ \cup {s})]

WriteSave(t) ==
    /\ saving[t].pc = "read"
    /\ setup' = [Merged(saving[t].row, saving[t]) EXCEPT !.status = setup.status]
    /\ latest' = [latest EXCEPT ![saving[t].step] = saving[t].answer]
    /\ overtaken' = (overtaken \/ saving[t].row.answers # setup.answers
                               \/ saving[t].row.completed # setup.completed)
    /\ saving' = [saving EXCEPT ![t].pc = "done", ![t].row = setup']
    /\ UNCHANGED <<tab, launching, setupInputs, setupFaults>>

ReadForLaunch(t) ==
    /\ launching[t].pc = "asked"
    /\ launching' = [launching EXCEPT ![t].pc =
          IF MissingRequired(setup) = {} THEN "read" ELSE "refused"]
    /\ UNCHANGED <<setup, tab, saving, latest, overtaken, setupInputs, setupFaults>>

WriteLaunch(t) ==
    /\ launching[t].pc = "read"
    /\ setup' = [setup EXCEPT !.status = "complete"]
    /\ launching' = [launching EXCEPT ![t].pc = "done"]
    /\ UNCHANGED <<tab, saving, latest, overtaken, setupInputs, setupFaults>>

\* A request dies before its write, or its answer is lost: the wizard says it could not save.
LoseSave(t) ==
    /\ saving[t].pc # "idle" /\ SetupFault
    /\ saving' = [saving EXCEPT ![t] = NoSave]
    /\ UNCHANGED <<setup, tab, launching, latest, overtaken, setupInputs>>

LoseLaunch(t) ==
    /\ launching[t].pc # "idle" /\ SetupFault
    /\ launching' = [launching EXCEPT ![t] = NoLaunch]
    /\ UNCHANGED <<setup, tab, saving, latest, overtaken, setupInputs>>

WizardStep(t) ==
    \/ OpenWizard(t) \/ LeaveWizard(t)
    \/ \E s \in Step : TypeAnswer(t, s)
    \/ \E s \in Step, intent \in {"complete", "skip", "draft"} : AskSave(t, s, intent)
    \/ AskLaunch(t) \/ ReceiveSave(t) \/ ReceiveLaunch(t)

ApiStep(t) ==
    \/ ReadForSave(t) \/ WriteSave(t) \/ ReadForLaunch(t) \/ WriteLaunch(t)
    \/ LoseSave(t) \/ LoseLaunch(t)

SetupNext == \E t \in Tab : WizardStep(t) \/ ApiStep(t)

SetupSpec == SetupInit /\ [][SetupNext]_setupVars

-----------------------------------------------------------------------------
(* Properties *)

\* Whatever saves are merged, a step is completed or skipped, never both, and a completed
\* step holds answers that its schema accepts unless a draft has replaced them since.
CompletedIsValid ==
    setup # Unset =>
        /\ setup.completed \cap setup.skipped = {}
        /\ \A s \in setup.completed \ setup.drafted : Valid(s, setup.answers[s])

\* Only a save that read the row before another one was written loses answers; as long as
\* none did, lost requests, reloads and second tabs leave every answer as it was last
\* written, and what was launched has its required steps.
AnswersAreKeptUnlessOvertaken ==
    setup # Unset /\ ~ overtaken =>
        /\ setup.answers = latest
        /\ setup.status = "complete" => MissingRequired(setup) = {}

\* A step marked as completed has a valid answer until a draft replaces it, and the answers
\* saved stay unless a save that was read beside them has overtaken them (routes/setup.ts,
\* the read and the write of a step).
SetupIsKept == CompletedIsValid /\ AnswersAreKeptUnlessOvertaken

\* routes/setup.ts says the wizard saves step by step "so a refresh, a phone call or a
\* closed laptop never loses answers".
AnswersAreKept == setup # Unset => setup.answers = latest
=============================================================================
