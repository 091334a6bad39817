----------------------------- MODULE MCConsole -----------------------------
(* Instances for TLC of the console's screens and of the handlers behind them, which   *)
(* do not call each other.  A behaviour works with one of them, chosen at its start;   *)
(* the others keep their initial states, so the run covers the sum of their states and *)
(* not the product.                                                                    *)
EXTENDS JobIntake, Setup, Shell, JobPane, SlackPane, Roster

CONSTANTS
    Note,                                       \* DispatchDesk
    SlackTeam1, SlackTeam2                      \* SlackPane

VARIABLES
    screen,
    span, drag, online, live, deskTime, ops, deskCalls, moves, recorded, excused, form,
    formDraft, posting, wanted, created, lostJobs, deskActs, deskFaults

intakeVars == vars
deskVars == <<span, drag, online, live, deskTime, ops, deskCalls, moves, recorded, excused,
              form, formDraft, posting, wanted, created, lostJobs, deskActs, deskFaults>>

\* The sheets of checks that the organization's templates carry, and a form's own lines.
Sheets     == <<None, "gas", "drain">>
SheetSteps == [t \in {None, "gas", "drain"} |-> IF t = None THEN <<"access", "test">> ELSE <<t>>]
OwnLines   == [f \in Form |-> IF f = "form1" THEN <<"tap">> ELSE <<>>]

ChannelTable == [t \in {SlackTeam1, SlackTeam2} |->
                    IF t = SlackTeam1 THEN {"jobs", "alerts"} ELSE {"field"}]

Desk == INSTANCE DispatchDesk WITH
    Job <- {CHOOSE j \in Job : TRUE}, Blocks <- 2, Draft <- {Note}, LedgerSize <- 2,
    MaxActs <- 4, MaxDeskFaults <- 1, MaxTime <- 1,
    now <- deskTime, calls <- deskCalls, draft <- formDraft, lostPosts <- lostJobs,
    acts <- deskActs

-----------------------------------------------------------------------------
Screen == {"intake", "desk", "pane", "shell", "roster", "invites", "slack", "setup"}

\* Only the screen that is worked with may start in more than one state.
At(s, start) == screen = s \/ (screen # s /\ start)

ConsoleInit ==
    /\ screen \in Screen
    /\ At("desk", span = [j \in {CHOOSE j \in Job : TRUE} |-> 1])
    /\ At("shell", until = 1 /\ inProgress = FALSE /\ staff = "owner" /\ module = Absent)
    /\ At("roster", skills = {} /\ rank = CHOOSE r \in Rank : TRUE)
    /\ At("slack", teams = {})
    /\ Desk!Init /\ ShellInit /\ RosterInit /\ SlackInit
    /\ Init /\ PaneInit /\ SetupInit /\ JoiningInit

IntakeStep ==
    /\ screen = "intake" /\ Next
    /\ UNCHANGED <<deskVars, paneVars, shellVars, rosterVars, joiningVars, slackVars,
                   setupVars>>
DeskStep ==
    /\ screen = "desk" /\ Desk!Next
    /\ UNCHANGED <<intakeVars, paneVars, shellVars, rosterVars, joiningVars, slackVars,
                   setupVars>>
PaneStep ==
    /\ screen = "pane" /\ PaneNext
    /\ UNCHANGED <<intakeVars, deskVars, shellVars, rosterVars, joiningVars, slackVars,
                   setupVars>>
ShellStep ==
    /\ screen = "shell" /\ ShellNext
    /\ UNCHANGED <<intakeVars, deskVars, paneVars, rosterVars, joiningVars, slackVars,
                   setupVars>>
RosterStep ==
    /\ screen = "roster" /\ RosterNext
    /\ UNCHANGED <<intakeVars, deskVars, paneVars, shellVars, joiningVars, slackVars,
                   setupVars>>
InviteStep ==
    /\ screen = "invites" /\ JoiningNext
    /\ UNCHANGED <<intakeVars, deskVars, paneVars, shellVars, rosterVars, slackVars,
                   setupVars>>
SlackStep ==
    /\ screen = "slack" /\ SlackNext
    /\ UNCHANGED <<intakeVars, deskVars, paneVars, shellVars, rosterVars, joiningVars,
                   setupVars>>
\* Drafts are half-finished answers to the required step, which they can spoil.
SetupStep ==
    /\ screen = "setup" /\ SetupNext
    /\ \A t \in Tab : saving'[t].intent = "draft" =>
          saving'[t].step \in Required /\ saving'[t].answer = Partial
    /\ UNCHANGED <<intakeVars, deskVars, paneVars, shellVars, rosterVars, joiningVars,
                   slackVars>>

ConsoleNext ==
    /\ \/ IntakeStep \/ DeskStep \/ PaneStep \/ ShellStep \/ RosterStep \/ InviteStep
       \/ SlackStep \/ SetupStep
    /\ UNCHANGED screen

ConsoleSpec == ConsoleInit /\ [][ConsoleNext]_<<screen, intakeVars, deskVars, paneVars,
    shellVars, rosterVars, joiningVars, slackVars, setupVars>>

\* Every failed move is listed once with what it wanted, a retry clears only its own entry,
\* and a new job is stored at most once per press (DispatchSurface.tsx, failedOps.ts,
\* NewJobForm.tsx).
DeskIsHonest == Desk!DeskIsHonest

=============================================================================
