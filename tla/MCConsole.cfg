\* One screen per behaviour.  Intake: two forms, two posts of each, three sheets, two
\* faults.  Desk: a job on two blocks, four acts.  Pane: two jobs, five acts, two reads.
\* Shell: a session of four ticks.  Roster: two skills, two roles, two devices.  Invites:
\* two links for one person, two pages, four acts beside the pages' submissions.  Slack: two
\* teams, three channels, two reads, four acts.  Setup: two tabs, two steps, four inputs.
\* One fault in each screen.
SPECIFICATION ConsoleSpec
CONSTANTS
    Form = {"form1", "form2"}
    Ladder <- Sheets
    StepsOf <- SheetSteps
    LinesOf <- OwnLines
    None = None
    MaxPosts = 2
    MaxIntakeFaults = 2
    Job = {j1, j2}
    Empty = Empty
    MaxPaneActs = 5
    MaxLoads = 2
    MaxPaneFaults = 1
    Note = note
    Production = TRUE
    Life = 4
    Lead = 2
    Absent = Absent
    MaxTime = 5
    MaxShellActs = 2
    MaxShellFaults = 1
    Skill = {gas, drain}
    Rank = {lead, helper}
    Device = {here, phone}
    Here = here
    Void = Void
    MaxRosterActs = 3
    MaxRosterFaults = 1
    Email = {ann}
    Window = {tab1, tab2}
    Nothing = Nothing
    MaxInvites = 2
    MaxInviteActs = 4
    MaxInviteFaults = 1
    SlackTeam1 = t1
    SlackTeam2 = t2
    Team = {t1, t2}
    ChannelsOf <- ChannelTable
    Event = {e1}
    Nil = Nil
    MaxReads = 2
    MaxSlackActs = 4
    MaxSlackFaults = 1
    Tab = {tab1, tab2}
    LastStep = 2
    Required = {1}
    Blank = Blank
    Partial = Partial
    Unset = Unset
    MaxSetupInputs = 4
    MaxSetupFaults = 1
INVARIANTS
    IntakeIsHonest
    DeskIsHonest
    PaneIsHonest
    ShellIsHonest
    TeamScreensAreHonest
    SlackPaneIsHonest
    SetupIsKept
\* Nothing is left to do when the acts of the bounds are over.
CHECK_DEADLOCK FALSE
