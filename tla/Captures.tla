------------------------------ MODULE Captures ------------------------------
(***************************************************************************)
(* Two operations a client retries under one opId and that reach outside   *)
(* the database: a photo that is uploaded past the API                     *)
(* (routes/media.ts, lib/storage.ts) and a text to a customer              *)
(* (routes/sms.ts, lib/sms.ts).                                            *)
(*                                                                         *)
(* One photo and one text.  The client asks for an upload intent, puts the *)
(* file where it was told and then reports completion; it repeats any of   *)
(* these as long as it has no answer, also while the first is under way.   *)
(***************************************************************************)
EXTENDS Naturals

CONSTANTS
    Request,         \* requests that run at once
    NoRow,           \* no row, no answer
    Configured,      \* whether Twilio is configured
    MaxCaptures,     \* bound: requests
    MaxCaptureFaults \* bound: crashes, refusals and lost answers

\* The absence of a row is none of the values a row, an id or an answer has.
ASSUME NoRowAssumption ==
    NoRow \notin Nat \cup {"pending", "uploaded", "sent", "provider_unconfigured"}

VARIABLES
    asset,         \* the MediaAsset of the photo's opId
    intentExpired, \* whether its intent has expired
    hasUrl,        \* whether the client holds a URL to put the file
    object,        \* storage: whether it holds the file
    photo,         \* the JobPhoto, by number
    photosMade,    \* history: JobPhoto rows created
    named,         \* history: what completions were answered with
    texts,         \* phone: texts the customer received
    sms,           \* the SmsMessage of the text's opId
    smsRaced,      \* history: two sends had found no record
    req,           \* the requests under way
    captures, captureFaults

mediaVars == <<asset, intentExpired, hasUrl, object, photo, photosMade, named>>
smsVars == <<texts, sms, smsRaced>>
captureCounts == <<captures, captureFaults>>
captureVars == <<mediaVars, smsVars, req, captureCounts>>

CaptureInit ==
    /\ asset = NoRow /\ intentExpired = FALSE /\ hasUrl = FALSE /\ object = FALSE
    /\ photo = NoRow /\ photosMade = 0 /\ named = {}
    /\ texts = 0 /\ sms = NoRow /\ smsRaced = FALSE
    /\ req = [r \in Request |-> "idle"]
    /\ captures = 0 /\ captureFaults = 0

CaptureAt(r, point) == req[r] = point
CaptureTo(r, point) == req' = [req EXCEPT ![r] = point]
Respond(r) == CaptureTo(r, "idle")
ReceiveCapture(r) ==
    /\ CaptureAt(r, "idle") /\ captures < MaxCaptures
    /\ captures' = captures + 1 /\ UNCHANGED captureFaults
CaptureFault ==
    /\ captureFaults < MaxCaptureFaults
    /\ captureFaults' = captureFaults + 1 /\ UNCHANGED captures

-----------------------------------------------------------------------------
(* POST /upload-intents *)

\* The intent of an opId is found again until it expires, also when it is completed.
FindIntent(r) ==
    /\ ReceiveCapture(r)
    /\ IF asset = NoRow THEN CaptureTo(r, "intent") /\ UNCHANGED hasUrl
       ELSE hasUrl' = (hasUrl \/ ~ intentExpired) /\ UNCHANGED req
    /\ UNCHANGED <<asset, intentExpired, object, photo, photosMade, named, smsVars>>

\* The unique opId refuses the loser of two first intents.
CreateIntent(r) ==
    /\ CaptureAt(r, "intent")
    /\ IF asset = NoRow THEN asset' = "pending" /\ hasUrl' = TRUE ELSE UNCHANGED <<asset, hasUrl>>
    /\ Respond(r)
    /\ UNCHANGED <<intentExpired, object, photo, photosMade, named, smsVars, captureCounts>>

PutFile ==
    /\ hasUrl /\ ~ object
    /\ object' = TRUE
    /\ UNCHANGED <<asset, intentExpired, hasUrl, photo, photosMade, named, smsVars, req,
                   captureCounts>>

ExpireIntent ==
    /\ asset # NoRow /\ ~ intentExpired
    /\ intentExpired' = TRUE
    /\ UNCHANGED <<asset, hasUrl, object, photo, photosMade, named, smsVars, req,
                   captureCounts>>

-----------------------------------------------------------------------------
(* POST /:assetId/complete *)

\* The asset is read: a completed one is answered with its photo, an expired one refused.
FindAsset(r) ==
    /\ ReceiveCapture(r) /\ object
    /\ \E purpose \in {"photo", "document"} :
          CaptureTo(r, CASE asset = "uploaded" -> "replay"
                         [] asset = "pending" /\ ~ intentExpired -> purpose
                         [] OTHER -> "idle")
    /\ UNCHANGED <<mediaVars, smsVars>>

\* Mutant of MarkUploaded: the update is not conditional on the row still being pending.
MarkUploadedAnyway(r) ==
    /\ req[r] \in {"photo", "document"}
    /\ asset' = "uploaded" /\ CaptureTo(r, IF CaptureAt(r, "photo") THEN "record" ELSE "idle")
    /\ UNCHANGED <<intentExpired, hasUrl, object, photo, photosMade, named, smsVars,
                   captureCounts>>

\* Only a pending asset is marked; who comes second is told so.
MarkUploaded(r) ==
    /\ req[r] \in {"photo", "document"}
    /\ IF asset = "pending"
         THEN asset' = "uploaded" /\ CaptureTo(r, IF CaptureAt(r, "photo") THEN "record" ELSE "idle")
         ELSE Respond(r) /\ UNCHANGED asset
    /\ UNCHANGED <<intentExpired, hasUrl, object, photo, photosMade, named, smsVars,
                   captureCounts>>

\* The photo's row, in a statement of its own.
RecordPhoto(r) ==
    /\ CaptureAt(r, "record")
    /\ IF photo = NoRow
         THEN photo' = photosMade + 1 /\ photosMade' = photosMade + 1
         ELSE UNCHANGED <<photo, photosMade>>
    /\ named' = named \cup {photo'}
    /\ Respond(r)
    /\ UNCHANGED <<asset, intentExpired, hasUrl, object, smsVars, captureCounts>>

AnswerReplay(r) ==
    /\ CaptureAt(r, "replay")
    /\ named' = named \cup {photo}
    /\ Respond(r)
    /\ UNCHANGED <<asset, intentExpired, hasUrl, object, photo, photosMade, smsVars,
                   captureCounts>>

\* DELETE /jobs/:id/photos/:photoId
DeletePhoto(r) ==
    /\ ReceiveCapture(r) /\ photo # NoRow
    /\ photo' = NoRow
    /\ UNCHANGED <<asset, intentExpired, hasUrl, object, photosMade, named, smsVars, req>>

-----------------------------------------------------------------------------
(* POST /sms/eta *)

\* A record of the opId answers for it.
FindPrior(r) ==
    /\ ReceiveCapture(r) /\ sms = NoRow
    /\ CaptureTo(r, "send")
    /\ smsRaced' = (smsRaced \/ \E q \in Request : req[q] \in {"send", "note"})
    /\ UNCHANGED <<mediaVars, texts, sms>>

SendSms(r) ==
    /\ CaptureAt(r, "send")
    /\ texts' = IF Configured THEN texts + 1 ELSE texts
    /\ CaptureTo(r, "note")
    /\ UNCHANGED <<mediaVars, sms, smsRaced, captureCounts>>

\* Twilio refuses, or its answer is late: nothing is recorded, so that a retry sends.
SendFails(r) ==
    /\ CaptureAt(r, "send") /\ Configured /\ CaptureFault
    /\ texts' \in {texts, texts + 1}
    /\ Respond(r)
    /\ UNCHANGED <<mediaVars, sms, smsRaced>>

\* The loser of two inserts reads the winner's record.
RecordSms(r) ==
    /\ CaptureAt(r, "note")
    /\ sms' = IF sms # NoRow THEN sms ELSE IF Configured THEN "sent" ELSE "provider_unconfigured"
    /\ Respond(r)
    /\ UNCHANGED <<mediaVars, texts, smsRaced, captureCounts>>

CaptureCrash(r) ==
    /\ ~ CaptureAt(r, "idle") /\ CaptureFault
    /\ Respond(r)
    /\ UNCHANGED <<mediaVars, smsVars>>

MediaStep(r) ==
    \/ FindIntent(r) \/ CreateIntent(r)
    \/ FindAsset(r) \/ MarkUploaded(r) \/ RecordPhoto(r) \/ AnswerReplay(r) \/ DeletePhoto(r)
SmsStep(r) == FindPrior(r) \/ SendSms(r) \/ SendFails(r) \/ RecordSms(r)

CaptureNext ==
    \/ \E r \in Request : MediaStep(r) \/ SmsStep(r) \/ CaptureCrash(r)
    \/ PutFile \/ ExpireIntent

CaptureSpec == CaptureInit /\ [][CaptureNext]_captureVars

-----------------------------------------------------------------------------
(* Properties *)

\* However often an upload is reported, it has one photo row at most, with one id for
\* all who are told one, and only once its file is stored.
PhotoIsUnique ==
    /\ photosMade <= 1 /\ named \subseteq {NoRow, 1}
    /\ photo # NoRow => asset = "uploaded" /\ object

\* The customer is texted again for an opId only when two sends overlapped, or after a
\* request that failed or died between the text and its record; what is recorded as sent
\* was sent.
TextedOnceUnlessRacedOrFailed ==
    /\ texts > 1 => smsRaced \/ captureFaults > 0
    /\ sms = "sent" => texts > 0

RetriesAreHarmless == PhotoIsUnique /\ TextedOnceUnlessRacedOrFailed

\* routes/media.ts says of a replayed completion "return the SAME photo id the first
\* call minted"; a deleted photo has none to return.
ReplayNamesPhoto == NoRow \in named => photosMade > 0

\* routes/sms.ts says a retried send returns the recorded outcome "instead of
\* double-texting the customer".
TextedOnce == texts <= 1
=============================================================================
