----------------------------- MODULE Paperwork -----------------------------
(***************************************************************************)
(* The office's records that a handler writes in more than one statement   *)
(* (routes/documents.ts, routes/quotes.ts, routes/routes.ts): a document   *)
(* with its versions, a request for information (RFI) that links it, the   *)
(* lines of a quote, and the versions of the day's route.                  *)
(*                                                                         *)
(* One job, document, RFI and quote; a request is numbered, and its number *)
(* stands for what it brings: a document version, a line, an answer.       *)
(* Columns that one statement replaces and nothing else reads (a           *)
(* document's name or notes, a quote's status, a line's price) are left    *)
(* out.                                                                    *)
(***************************************************************************)
EXTENDS Integers, Sequences, SequencesExt, FiniteSetsExt

CONSTANTS
    Clerk,         \* requests that run at once
    Stops,         \* what the open jobs of the day may be
    NoPaper,       \* no row
    MaxPapers,     \* bound: requests
    MaxReplans,    \* bound: changes of the open jobs
    MaxCrashes     \* bound: requests that stop between two statements

\* A document's row: its id, the versions it has had and the current one.
DocumentRow == [id : Nat, versions : Seq(Nat), current : Nat]

\* The absence of a row is not a row.
ASSUME NoPaperAssumption == NoPaper \notin DocumentRow

VARIABLES
    document,      \* JobDocument, found by its opId
    rfi,           \* the Rfi
    quoteLines,    \* the QuoteLine rows, NoPaper without their Quote
    openStops,     \* the open jobs, in dispatch order
    route,         \* the RouteVersion rows
    routeAudit,    \* the RouteRecalculationAudit rows
    clerk,         \* the requests under way
    accepted,      \* history: versions answered with success, in the document's lifetime
    clashed,       \* history: kinds of records on which two requests overlapped
    papers, replans, crashes

recordVars == <<document, rfi, quoteLines, route, routeAudit>>
paperCounts == <<papers, replans, crashes>>
paperVars == <<recordVars, openStops, clerk, accepted, clashed, paperCounts>>

IdleClerk == [pc |-> "idle", paper |-> NoPaper, seen |-> NoPaper]

PaperInit ==
    /\ document = NoPaper /\ rfi = NoPaper /\ quoteLines = {}
    /\ openStops \in Stops /\ route = <<>> /\ routeAudit = {}
    /\ clerk = [c \in Clerk |-> IdleClerk]
    /\ accepted = {} /\ clashed = {}
    /\ papers = 0 /\ replans = 0 /\ crashes = 0

ClerkAt(c, point) == clerk[c].pc = point
ReceivePaper(c) ==
    /\ ClerkAt(c, "idle") /\ papers < MaxPapers
    /\ papers' = papers + 1 /\ UNCHANGED <<replans, crashes>>
ClerkStarts(c, point, seen) ==
    clerk' = [clerk EXCEPT ![c] = [pc |-> point, paper |-> papers', seen |-> seen]]
ClerkTo(c, point, seen) == clerk' = [clerk EXCEPT ![c].pc = point, ![c].seen = seen]
ClerkEnds(c) == clerk' = [clerk EXCEPT ![c] = IdleClerk]
Clash(kind, overlap) == clashed' = IF overlap THEN clashed \cup {kind} ELSE clashed

-----------------------------------------------------------------------------
(* Documents *)

\* POST /documents: a retried capture finds its row by opId and is answered with it.
FindByOpId(c) ==
    /\ ReceivePaper(c) /\ document = NoPaper
    /\ ClerkStarts(c, "create", NoPaper)
    /\ UNCHANGED <<recordVars, openStops, accepted, clashed>>

\* The unique opId refuses the loser of two first captures.  A client may send a history of
\* its own, with or without the current version; no screen does.
Earlier == 0
CreateDocument(c) ==
    /\ ClerkAt(c, "create")
    /\ LET v == clerk[c].paper
       IN  IF document = NoPaper
             THEN \E history \in {<<v>>, <<Earlier, v>>, <<Earlier>>} :
                     /\ document' = [id |-> v, versions |-> history, current |-> v]
                     /\ accepted' = ToSet(history)
             ELSE UNCHANGED <<document, accepted>>
    /\ ClerkEnds(c)
    /\ UNCHANGED <<rfi, quoteLines, openStops, route, routeAudit, clashed, paperCounts>>

\* POST /documents/:id/versions reads the history ...
ReadVersions(c) ==
    /\ ReceivePaper(c) /\ document # NoPaper
    /\ ClerkStarts(c, "append", document)
    /\ UNCHANGED <<recordVars, openStops, accepted, clashed>>

\* ... and writes it back with one more, if the row is still there.
AppendVersion(c) ==
    /\ ClerkAt(c, "append")
    /\ LET v == clerk[c].paper
           seen == clerk[c].seen
       IN  IF document = NoPaper \/ document.id # seen.id
             THEN UNCHANGED <<document, accepted, clashed>>
             ELSE /\ document' = [seen EXCEPT !.versions = Append(@, v), !.current = v]
                  /\ accepted' = accepted \cup {v}
                  /\ Clash("versions", seen # document)
    /\ ClerkEnds(c)
    /\ UNCHANGED <<rfi, quoteLines, openStops, route, routeAudit, paperCounts>>

DeleteDocument(c) ==
    /\ ReceivePaper(c) /\ document # NoPaper
    /\ document' = NoPaper /\ accepted' = {}
    /\ ClerkStarts(c, "unlink", document.id)
    /\ UNCHANGED <<rfi, quoteLines, openStops, route, routeAudit, clashed>>

\* "Unlink any RFIs that referenced the deleted document", in a statement of its own.
UnlinkRfis(c) ==
    /\ ClerkAt(c, "unlink")
    /\ LET id == clerk[c].seen
       IN  /\ rfi' = IF rfi # NoPaper /\ rfi.attachment = id
                       THEN [rfi EXCEPT !.attachment = NoPaper] ELSE rfi
           /\ Clash("attachment", \E d \in Clerk : ClerkAt(d, "raise") /\ clerk[d].seen = id)
    /\ ClerkEnds(c)
    /\ UNCHANGED <<document, quoteLines, openStops, route, routeAudit, accepted, paperCounts>>

-----------------------------------------------------------------------------
(* RFIs *)

\* POST /jobs/:jobId/rfis checks the attachment it was given, if any.
CheckAttachment(c) ==
    /\ ReceivePaper(c) /\ rfi = NoPaper
    /\ \/ ClerkStarts(c, "raise", NoPaper)
       \/ document # NoPaper /\ ClerkStarts(c, "raise", document.id)
    /\ UNCHANGED <<recordVars, openStops, accepted, clashed>>

RaiseRfi(c) ==
    /\ ClerkAt(c, "raise")
    /\ rfi' = IF rfi = NoPaper
                THEN [attachment |-> clerk[c].seen, answer |-> NoPaper, status |-> "raised"] ELSE rfi
    /\ ClerkEnds(c)
    /\ UNCHANGED <<document, quoteLines, openStops, route, routeAudit, accepted, clashed,
                   paperCounts>>

\* PATCH /rfis/:id writes an answer, a closed status, or both.
Revised(row, answer, close) ==
    [row EXCEPT !.answer = IF answer = NoPaper THEN @ ELSE answer,
                !.status = IF close THEN "closed" ELSE @]

ReviseRfi(c) ==
    /\ ReceivePaper(c) /\ rfi # NoPaper
    /\ \E answer \in {NoPaper, papers'}, close \in BOOLEAN : rfi' = Revised(rfi, answer, close)
    /\ UNCHANGED <<document, quoteLines, openStops, route, routeAudit, clerk, accepted, clashed>>

-----------------------------------------------------------------------------
(* Quote lines *)

LastOrder == IF quoteLines = {} THEN -1 ELSE Max({l[2] : l \in quoteLines})

\* POST /:id/lines reads the last line, then inserts one behind it.
ReadLastLine(c) ==
    /\ ReceivePaper(c) /\ quoteLines # NoPaper
    /\ ClerkStarts(c, "line", LastOrder)
    /\ Clash("line", \E d \in Clerk : ClerkAt(d, "line"))
    /\ UNCHANGED <<recordVars, openStops, accepted>>

\* The insert fails when the quote was deleted meanwhile.
CreateLine(c) ==
    /\ ClerkAt(c, "line")
    /\ quoteLines' = IF quoteLines = NoPaper THEN NoPaper
                     ELSE quoteLines \cup {<<clerk[c].paper, clerk[c].seen + 1>>}
    /\ ClerkEnds(c)
    /\ UNCHANGED <<document, rfi, openStops, route, routeAudit, accepted, clashed, paperCounts>>

DeleteLine(c) ==
    /\ ReceivePaper(c) /\ quoteLines # NoPaper
    /\ \E l \in quoteLines : quoteLines' = quoteLines \ {l}
    /\ UNCHANGED <<document, rfi, openStops, route, routeAudit, clerk, accepted, clashed>>

\* DELETE /:id takes the lines with it.
DeleteQuote(c) ==
    /\ ReceivePaper(c) /\ quoteLines # NoPaper
    /\ quoteLines' = NoPaper
    /\ UNCHANGED <<document, rfi, openStops, route, routeAudit, clerk, accepted, clashed>>

-----------------------------------------------------------------------------
(* The route of the day *)

\* Dispatch changes what is open, or its order.
Replan ==
    /\ replans < MaxReplans /\ replans' = replans + 1
    /\ \E s \in Stops \ {openStops} : openStops' = s
    /\ UNCHANGED <<recordVars, clerk, accepted, clashed, papers, crashes>>

\* GET /today loads the open jobs ...
LoadStops(c) ==
    /\ ReceivePaper(c)
    /\ ClerkStarts(c, "latest", openStops)
    /\ UNCHANGED <<recordVars, openStops, accepted, clashed>>

StopsChanged(stops) == route = <<>> \/ Last(route) # stops

\* ... compares them with the latest version ...
ReadLatest(c) ==
    /\ ClerkAt(c, "latest")
    /\ LET stops == clerk[c].seen
       IN  IF StopsChanged(stops) THEN ClerkTo(c, "version", <<stops, Len(route) + 1>>)
                                  ELSE ClerkEnds(c)
    /\ UNCHANGED <<recordVars, openStops, accepted, clashed, paperCounts>>

\* Mutant of CreateVersion: a taken number gives way to the next one.
CreateVersionAnyway(c) ==
    /\ ClerkAt(c, "version")
    /\ route' = Append(route, clerk[c].seen[1])
    /\ ClerkTo(c, "audit", Len(route) + 1)
    /\ UNCHANGED <<document, rfi, quoteLines, openStops, routeAudit, accepted, clashed,
                   paperCounts>>

\* ... and inserts the next one, unless its number has been taken ...
CreateVersion(c) ==
    /\ ClerkAt(c, "version")
    /\ LET n == clerk[c].seen[2]
       IN  IF n \in DOMAIN route
             THEN ClerkEnds(c) /\ UNCHANGED route
             ELSE /\ route' = Append(route, clerk[c].seen[1])
                  /\ ClerkTo(c, "audit", n)
    /\ UNCHANGED <<document, rfi, quoteLines, openStops, routeAudit, accepted, clashed,
                   paperCounts>>

\* ... and then its audit row.
AuditVersion(c) ==
    /\ ClerkAt(c, "audit")
    /\ routeAudit' = routeAudit \cup {clerk[c].seen}
    /\ ClerkEnds(c)
    /\ UNCHANGED <<document, rfi, quoteLines, openStops, route, accepted, clashed, paperCounts>>

-----------------------------------------------------------------------------
ClerkCrash(c) ==
    /\ ~ ClerkAt(c, "idle") /\ crashes < MaxCrashes /\ crashes' = crashes + 1
    /\ ClerkEnds(c)
    /\ UNCHANGED <<recordVars, openStops, accepted, clashed, papers, replans>>

DocumentStep(c) ==
    \/ FindByOpId(c) \/ CreateDocument(c) \/ ReadVersions(c) \/ AppendVersion(c)
    \/ DeleteDocument(c) \/ UnlinkRfis(c)
RfiStep(c) == CheckAttachment(c) \/ RaiseRfi(c) \/ ReviseRfi(c)
QuoteStep(c) == ReadLastLine(c) \/ CreateLine(c) \/ DeleteLine(c) \/ DeleteQuote(c)
RouteStep(c) == LoadStops(c) \/ ReadLatest(c) \/ CreateVersion(c) \/ AuditVersion(c)

PaperNext ==
    \/ \E c \in Clerk : DocumentStep(c) \/ RfiStep(c) \/ QuoteStep(c) \/ RouteStep(c) \/ ClerkCrash(c)
    \/ Replan

PaperSpec == PaperInit /\ [][PaperNext]_paperVars

-----------------------------------------------------------------------------
(* Properties *)

\* Every version whose upload was answered with success is in the history, the current
\* one last, unless two uploads overlapped; a history that a client sent without the
\* current version lacks it until the next upload.
VersionsAreKept ==
    document # NoPaper /\ "versions" \notin clashed =>
        /\ ToSet(document.versions) = accepted
        /\ Last(document.versions) \in {document.current, Earlier}

\* An RFI links a document that exists, except while its deletion is under way, after
\* one that crashed, or when it was raised during one.
AttachmentResolves ==
    rfi # NoPaper /\ rfi.attachment # NoPaper =>
        \/ document # NoPaper /\ document.id = rfi.attachment
        \/ crashes > 0 \/ "attachment" \in clashed
        \/ \E c \in Clerk : ClerkAt(c, "unlink") /\ clerk[c].seen = rfi.attachment

\* Lines have distinct positions unless two were added at once.
LinesAreOrdered ==
    quoteLines # NoPaper /\ "line" \notin clashed =>
        \A l, m \in quoteLines : l # m => l[2] # m[2]

\* GET /today is a read that writes: however many run at once and however stale the jobs
\* they loaded, no two successive versions are the same, and a version lacks its audit
\* row only while it is written or after a crash.
RouteGrowsOnlyByChange ==
    /\ \A n \in 2..Len(route) : route[n] # route[n - 1]
    /\ \A n \in DOMAIN route \ routeAudit :
          crashes > 0 \/ \E c \in Clerk : ClerkAt(c, "audit") /\ clerk[c].seen = n

\* The records that requests write in several statements stay consistent.
RecordsAgree ==
    VersionsAreKept /\ AttachmentResolves /\ LinesAreOrdered /\ RouteGrowsOnlyByChange

\* schemas/document.ts says of the answer "moving the RFI from raised -> answered".
AnsweredRfiIsNotRaised == rfi # NoPaper /\ rfi.answer # NoPaper => rfi.status # "raised"
=============================================================================
