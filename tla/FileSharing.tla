---------------------------- MODULE FileSharing ----------------------------
(***************************************************************************)
(* Sharing files in one conversation: FileService and its object storage   *)
(* (file_service.py, file_storage.py), the two endpoints (api/v1/files.py) *)
(* and sendFile, loadFile and retryLoadFile of messagingStore.ts.          *)
(*                                                                         *)
(* An upload stores the object first, compares the bytes read with the     *)
(* size that was declared, writes the message and the attachment in one    *)
(* transaction, announces the message and answers, and commits only then.  *)
(* The storage knows no transactions: what was put stays until it is       *)
(* deleted. The conversation can be deleted at any time.                   *)
(*                                                                         *)
(* A file stands for its attachment, its message and the upload of both.   *)
(***************************************************************************)
EXTENDS Integers, FiniteSets

CONSTANTS Files, Browsers,
          Sender,      \* the browser the files are sent from
          Loads,       \* downloads under way in all browsers
          MaxEvents    \* bound on page loads and retries

ASSUME BoundAssumption == Sender \in Browsers /\ 0 \notin Browsers /\ MaxEvents \in Nat

VARIABLES
    upload,      \* what the request of each file does next
    object,      \* the object of each file in the storage
    attachments, \* files whose message and attachment are committed
    gone,        \* whether the conversation was deleted
    awaited,     \* files whose upload the sender's page still waits for
    announced,   \* files whose message.new was published
    shown,       \* decryptedFileCache of each browser
    failed,      \* fileLoadErrors of each browser
    load,
    events

vars == <<upload, object, attachments, gone, awaited, announced, shown, failed, load, events>>
browser == <<awaited, shown, failed, load, events>>
server == <<upload, object, attachments, gone, announced>>

Load == [pc: {"idle", "row", "object"}, browser: Browsers \cup {0}, file: Files \cup {0}]
NoLoad == [pc |-> "idle", browser |-> 0, file |-> 0]

TypeOK ==
    /\ upload \in [Files -> {"new", "put", "check", "write", "announce", "commit", "done"}]
    /\ object \in [Files -> {"none", "whole", "other"}]
    /\ attachments \in SUBSET Files /\ awaited \in SUBSET Files /\ announced \in SUBSET Files
    /\ gone \in BOOLEAN
    /\ shown \in [Browsers -> SUBSET Files] /\ failed \in [Browsers -> SUBSET Files]
    /\ load \in [Loads -> Load]
    /\ events \in 0 .. MaxEvents

Init ==
    /\ upload = [f \in Files |-> "new"] /\ object = [f \in Files |-> "none"]
    /\ attachments = {} /\ awaited = Files /\ announced = {} /\ gone = FALSE /\ events = 0
    /\ shown = [b \in Browsers |-> {}] /\ failed = [b \in Browsers |-> {}]
    /\ load = [l \in Loads |-> NoLoad]

-----------------------------------------------------------------------------
(* The upload *)

Step(f, pc) == upload' = [upload EXCEPT ![f] = pc]
\* Mutant of Store: the key of an object names the conversation only.
StoreUnderOneKey(f, what) == object' = [g \in Files |-> what]

\* The key of the object names the attachment, whose uuid is fresh.
Store(f, what) == object' = [object EXCEPT ![f] = what]

\* The sender is an active member, the declared size is allowed, the signing key is the
\* sender's current one and the envelope is well formed; else the request is refused.
Authorize(f) ==
    /\ upload[f] = "new"
    /\ Step(f, IF gone THEN "done" ELSE "put")
    /\ UNCHANGED <<object, attachments, gone, announced, browser>>

Refuse(f) ==
    /\ upload[f] = "new"
    /\ Step(f, "done")
    /\ UNCHANGED <<object, attachments, gone, announced, browser>>

\* put_object: the bytes that were read, as many as declared or not; or an error, which may
\* come after the object was stored.
PutObject(f) ==
    /\ upload[f] = "put"
    /\ \/ \E what \in {"whole", "other"} : Store(f, what)
       \/ UNCHANGED object
    /\ IF object'[f] = "none" THEN Step(f, "done")
                              ELSE \E pc \in {"check", "done"} : Step(f, pc)
    /\ UNCHANGED <<attachments, gone, announced, browser>>

SizeMatches(f) == object[f] = "whole"

\* The size is not the declared one: the object is deleted again, which may fail.
SizeMismatch(f) ==
    /\ upload[f] = "check" /\ ~SizeMatches(f)
    /\ \/ Store(f, "none")
       \/ UNCHANGED object
    /\ Step(f, "done")
    /\ UNCHANGED <<attachments, gone, announced, browser>>

SizeChecked(f) ==
    /\ upload[f] = "check" /\ SizeMatches(f)
    /\ Step(f, "write")
    /\ UNCHANGED <<object, attachments, gone, announced, browser>>

\* The message and the attachment, complete, are flushed. The message refers to the
\* conversation: it is locked against a delete, or the insert fails and all is rolled back.
WriteRows(f) ==
    /\ upload[f] = "write"
    /\ Step(f, IF gone THEN "done" ELSE "announce")
    /\ UNCHANGED <<object, attachments, gone, announced, browser>>

\* The endpoint publishes message.new to the other members, and answers.
Announce(f) ==
    /\ upload[f] = "announce"
    /\ announced' = announced \cup {f}
    /\ Step(f, "commit")
    /\ UNCHANGED <<object, attachments, gone, browser>>

CommitUpload(f) ==
    /\ upload[f] = "commit"
    /\ attachments' = attachments \cup {f}
    /\ Step(f, "done")
    /\ UNCHANGED <<object, gone, announced, browser>>

\* A statement or the commit fails: the rows are undone, the object is not.
UploadFails(f) ==
    /\ upload[f] \in {"write", "announce", "commit"}
    /\ Step(f, "done")
    /\ UNCHANGED <<object, attachments, gone, announced, browser>>

\* The page that sent the file hears the answer, sooner or later than the commit.
Answered(f) ==
    /\ f \in awaited \cap announced
    /\ awaited' = awaited \ {f}
    /\ shown' = [shown EXCEPT ![Sender] = @ \cup {f}]
    /\ UNCHANGED <<server, failed, load, events>>

\* Mutant of DeleteConversation: the objects of the attachments go with their rows.
DeleteWithObjects ==
    /\ ~gone
    /\ \A f \in Files : upload[f] \notin {"announce", "commit"}
    /\ gone' = TRUE /\ attachments' = {}
    /\ object' = [f \in Files |-> IF f \in attachments THEN "none" ELSE object[f]]
    /\ UNCHANGED <<upload, announced, browser>>

\* The conversation is deleted with its messages and attachments; the objects stay.
DeleteConversation ==
    /\ ~gone
    /\ \A f \in Files : upload[f] \notin {"announce", "commit"}
    /\ gone' = TRUE /\ attachments' = {}
    /\ UNCHANGED <<upload, object, announced, browser>>

-----------------------------------------------------------------------------
(* The download *)

Loading(b) == {load[l].file : l \in {k \in Loads : load[k].browser = b}}

\* Files whose message a browser can have: from the event, which the sender is not sent,
\* or from the history.
Known(b) == IF b = Sender THEN attachments ELSE announced \cup attachments

Start(b, f) ==
    \E l \in Loads : /\ load[l] = NoLoad
                     /\ load' = [load EXCEPT ![l] = [pc |-> "row", browser |-> b, file |-> f]]

\* loadFile, when the bubble appears or the conversation is opened. (Without the page's
\* identity or its list of conversations it returns, and nothing has changed.)
LoadFile(b, f) ==
    /\ f \in Known(b) \ (shown[b] \cup failed[b] \cup Loading(b))
    /\ Start(b, f)
    /\ UNCHANGED <<server, awaited, shown, failed, events>>

\* Mutant of RetryLoadFile: the in-flight guard is forgotten.
RetryUnguarded(b, f) ==
    /\ events < MaxEvents /\ events' = events + 1
    /\ f \in Known(b)
    /\ Start(b, f)
    /\ failed' = [failed EXCEPT ![b] = @ \ {f}]
    /\ UNCHANGED <<server, awaited, shown>>

\* retryLoadFile: a click on the bubble of a file that could not be loaded, or two. It too
\* may return without a download, but the error is gone.
RetryLoadFile(b, f) ==
    /\ events < MaxEvents /\ events' = events + 1
    /\ f \in Known(b)
    /\ failed' = [failed EXCEPT ![b] = @ \ {f}]
    /\ \/ f \notin shown[b] \cup Loading(b) /\ Start(b, f)
       \/ UNCHANGED load
    /\ UNCHANGED <<server, awaited, shown>>

\* Mutant of Fails: the download is not taken out of the in-flight set.
FailsForGood(l) ==
    /\ failed' = [failed EXCEPT ![load[l].browser] = @ \cup {load[l].file}]
    /\ load' = [load EXCEPT ![l] = [@ EXCEPT !.pc = "failed"]]

Fails(l) ==
    /\ failed' = [failed EXCEPT ![load[l].browser] = @ \cup {load[l].file}]
    /\ load' = [load EXCEPT ![l] = NoLoad]

\* FileService.download: the reader is a member, the attachment is committed, its message
\* belongs to the conversation and it is complete.
FindAttachment(l) ==
    /\ load[l].pc = "row"
    /\ IF load[l].file \in attachments
       THEN load' = [load EXCEPT ![l] = [@ EXCEPT !.pc = "object"]] /\ UNCHANGED failed
       ELSE Fails(l)
    /\ UNCHANGED <<server, awaited, shown, events>>

\* The object is fetched, and opened with the conversation's key.
GetObject(l) ==
    /\ load[l].pc = "object" /\ object[load[l].file] # "none"
    /\ shown' = [shown EXCEPT ![load[l].browser] = @ \cup {load[l].file}]
    /\ load' = [load EXCEPT ![l] = NoLoad]
    /\ UNCHANGED <<server, awaited, failed, events>>

\* The request fails, or the browser has not the key.
LoadFails(l) ==
    /\ load[l].pc # "idle"
    /\ Fails(l)
    /\ UNCHANGED <<server, awaited, shown, events>>

\* The page is loaded again: its caches, downloads and uploads are gone.
LoadPage(b) ==
    /\ events < MaxEvents /\ events' = events + 1
    /\ shown' = [shown EXCEPT ![b] = {}] /\ failed' = [failed EXCEPT ![b] = {}]
    /\ load' = [l \in Loads |-> IF load[l].browser = b THEN NoLoad ELSE load[l]]
    /\ awaited' = IF b = Sender THEN {} ELSE awaited
    /\ UNCHANGED server

Next ==
    \/ \E f \in Files : \/ Authorize(f) \/ Refuse(f) \/ PutObject(f)
                        \/ SizeMismatch(f) \/ SizeChecked(f) \/ WriteRows(f)
                        \/ Announce(f) \/ Answered(f) \/ CommitUpload(f) \/ UploadFails(f)
                        \/ \E b \in Browsers : LoadFile(b, f) \/ RetryLoadFile(b, f)
    \/ \E l \in Loads : FindAttachment(l) \/ GetObject(l) \/ LoadFails(l)
    \/ \E b \in Browsers : LoadPage(b)
    \/ DeleteConversation

Spec == Init /\ [][Next]_vars

-----------------------------------------------------------------------------
(* Properties *)

\* A file that can be downloaded is whole: its object is in the storage with the bytes that
\* were declared, however uploads, failures, rollbacks and the deletion overlapped.
ServedIsWhole == \A f \in attachments : object[f] = "whole"

\* A download that found its attachment finds the object, even when the conversation was
\* deleted in between.
ObjectIsThere == \A l \in Loads : load[l].pc = "object" => object[load[l].file] = "whole"

\* A browser never downloads a file twice at once, however the prefetch, the bubble and the
\* retries overlap.
OneDownloadPerFile ==
    \A k, l \in Loads : load[k] # NoLoad /\ k # l =>
        load[k].browser # load[l].browser \/ load[k].file # load[l].file
=============================================================================
