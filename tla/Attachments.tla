---------------------------- MODULE Attachments ----------------------------
(***************************************************************************)
(* Files attached to tasks and to approvals: an object in S3 for the file  *)
(* and one for its thumbnail, and a row of task_attachment (task-          *)
(* attachment-base.service.ts) or of approval_attachment (approvals        *)
(* .service.ts) that names them.  A thumbnail that createThumbnail does    *)
(* not make is a predefined one: an object that many rows name.  S3 is     *)
(* outside the transaction: what a call puts or deletes there shows at     *)
(* once and is not rolled back, while its rows appear when it commits.     *)
(* Every night a job deletes the objects that no committed row names.      *)
(*                                                                         *)
(* Tasks have upload and delete, approvals upload and replace; of the two  *)
(* uploads only that of tasks deletes its last objects when it fails.      *)
(* Here a failed upload may or may not: Throw or Crash.                    *)
(***************************************************************************)
EXTENDS Naturals, FiniteSets

CONSTANTS
    Calls,       \* the connections that run calls, one at a time each
    Services,    \* the calls that each connection makes: subsets of AllOps
    Predefined,  \* the thumbnails that createThumbnail hands out (external)
    MaxFiles     \* bound: files uploaded in a behaviour

AllOps == {"upload", "replace", "delete"}

ASSUME OpsAssumption == Services \in [Calls -> SUBSET AllOps]
ASSUME PredefinedAssumption == \A o \in Predefined : o.base = 0
ASSUME MaxFilesAssumption == MaxFiles \in Nat

VARIABLES
    bucket,  \* the objects in S3
    rows,    \* the committed attachment rows: id -> the objects it names
    clock,   \* the base names given so far: a timestamp, so never used twice
    call,    \* what each connection is doing
    purge,   \* what the nightly job is doing
    lost     \* ghost: the objects that a row may name and not have, see Lose

attachmentVars == <<bucket, rows, clock, call, purge, lost>>

File(n)  == [dir |-> "docs", base |-> n]
Thumb(n) == [dir |-> "thumbnails", base |-> n]
OwnObjects == {File(n) : n \in 1..MaxFiles} \cup {Thumb(n) : n \in 1..MaxFiles}
Objects  == OwnObjects \cup Predefined
Dirs     == <<"docs", "thumbnails">>

Named == UNION {rows[id] : id \in DOMAIN rows}

NoCall == [pc |-> "idle"]
CallState ==
    [op : AllOps, pc : {"file", "thumb", "save", "row", "drop", "commit", "undo"},
     n : 0..MaxFiles,                     \* base name of the file at hand
     names : [1..MaxFiles -> SUBSET Objects],   \* what its rows will name
     saved : SUBSET (1..MaxFiles),        \* rows saved, still uncommitted
     ids : SUBSET (1..MaxFiles),          \* rows replaced or deleted
     left : SUBSET (1..MaxFiles),         \* those of them not deleted yet
     drop : SUBSET Objects,               \* objects still to be deleted
     dropped : SUBSET Objects]            \* objects of those rows deleted
Running == {c \in Calls : call[c] # NoCall}
InHand(c) == UNION {call[c].names[n] : n \in 1..MaxFiles}

Resting == [pc |-> "resting"]
PurgeState == [pc : {"list", "find", "delete"}, dir : {1, 2}, keys : SUBSET Objects]

AttachmentsInit ==
    /\ bucket = Predefined
    /\ rows = [id \in {} |-> {}]
    /\ clock = 0
    /\ call = [c \in Calls |-> NoCall]
    /\ purge = Resting
    /\ lost = {}

(* The ghost is told what the code cannot give back: a predefined thumbnail that is
   deleted with one row or as nobody's, what a call that then fails has deleted of
   the rows it was to replace or delete, and what the job takes for nobody's though
   a call in flight has put it. *)
Lose(S) == lost' = lost \cup S

-----------------------------------------------------------------------------
(* Calls *)

MayStart(c, op) == call[c] = NoCall /\ op \in Services[c]

Start(c, op, pc, ids, drop) ==
    /\ call' = [call EXCEPT ![c] = [op |-> op, pc |-> pc, n |-> 0,
                                    names |-> [n \in 1..MaxFiles |-> {}],
                                    saved |-> {}, ids |-> ids, left |-> ids,
                                    drop |-> drop, dropped |-> {}]]
    /\ UNCHANGED <<bucket, rows, clock, purge, lost>>

StartUpload(c) == MayStart(c, "upload") /\ Start(c, "upload", "file", {}, {})

(* updateApprovalAttachmentFile reads the row; its objects will be deleted. *)
StartReplace(c) ==
    /\ MayStart(c, "replace")
    /\ \E id \in DOMAIN rows : Start(c, "replace", "file", {id}, rows[id])

(* deleteTaskAttachment takes one row, deleteTaskAttachmentsByTaskId all those
   of a task, one after the other. *)
StartDelete(c) ==
    /\ MayStart(c, "delete")
    /\ \E ids \in SUBSET DOMAIN rows \ {{}} : Start(c, "delete", "row", ids, {})

(* deleteTaskAttachmentEx reads the row again and throws when it is gone, which
   rolls back the rows deleted before it, though not their objects. *)
NextRow(c) ==
    /\ call[c].pc = "row"
    /\ \E id \in call[c].left :
          IF id \in DOMAIN rows
          THEN /\ call' = [call EXCEPT ![c].pc = "drop", ![c].left = @ \ {id},
                                        ![c].drop = rows[id]]
               /\ UNCHANGED lost
          ELSE /\ call' = [call EXCEPT ![c] = NoCall]
               /\ Lose(call[c].dropped)
    /\ UNCHANGED <<bucket, rows, clock, purge>>

PutFile(c) ==
    /\ call[c].pc = "file"
    /\ clock < MaxFiles
    /\ clock' = clock + 1
    /\ bucket' = bucket \cup {File(clock')}
    /\ call' = [call EXCEPT ![c].pc = "thumb", ![c].n = clock',
                            ![c].names[clock'] = {File(clock')}]
    /\ UNCHANGED <<rows, purge, lost>>

(* A thumbnail of its own, or a predefined one, whose key the row will hold. *)
PutThumb(c) ==
    /\ call[c].pc = "thumb"
    /\ \E o \in {Thumb(call[c].n)} \cup Predefined :
          /\ bucket' = IF o \in Predefined THEN bucket ELSE bucket \cup {o}
          /\ call' = [call EXCEPT ![c].pc = IF call[c].op = "upload" THEN "save" ELSE "drop",
                                  ![c].names[call[c].n] = @ \cup {o}]
    /\ UNCHANGED <<rows, clock, purge, lost>>

(* Saves the row of the file at hand; the next file, or the end of the loop. *)
SaveRow(c) ==
    /\ call[c].pc = "save"
    /\ \E pc \in {"file", "commit"} :
          call' = [call EXCEPT ![c].pc = pc, ![c].saved = @ \cup {call[c].n}]
    /\ UNCHANGED <<bucket, rows, clock, purge, lost>>

(* replace and delete remove the old objects, before they commit; the thumbnail
   also when it is a predefined one. *)
DropObject(c) ==
    /\ call[c].pc = "drop"
    /\ \E o \in call[c].drop :
          /\ bucket' = bucket \ {o}
          /\ call' = [call EXCEPT ![c].drop = @ \ {o}, ![c].dropped = @ \cup {o},
                                  ![c].pc = IF call[c].drop # {o} THEN "drop"
                                            ELSE IF call[c].op = "delete" /\ call[c].left # {}
                                            THEN "row" ELSE "commit"]
          /\ Lose({o} \cap Predefined)
    /\ UNCHANGED <<rows, clock, purge>>

(* The rows are written by id: a row somebody else removed is not there to be
   updated or deleted. *)
Commit(c) ==
    /\ call[c].pc = "commit"
    /\ rows' = CASE call[c].op = "upload" ->
                      [id \in DOMAIN rows \cup call[c].saved |->
                         IF id \in call[c].saved THEN call[c].names[id] ELSE rows[id]]
                 [] call[c].op = "replace" ->
                      [id \in DOMAIN rows |->
                         IF id \in call[c].ids THEN call[c].names[call[c].n] ELSE rows[id]]
                 [] OTHER -> [id \in DOMAIN rows \ call[c].ids |-> rows[id]]
    /\ call' = [call EXCEPT ![c] = NoCall]
    /\ UNCHANGED <<bucket, clock, purge, lost>>

(* uploadFiles of tasks catches the exception: it deletes the objects of the
   last file it put, and of the last thumbnail (whose file may be an earlier
   one), then rethrows.  The rows of the call are rolled back. *)
LastThumb(c) == {Thumb(n) : n \in {m \in 1..MaxFiles : /\ Thumb(m) \in call[c].names[m]
                                                      /\ \A k \in 1..MaxFiles :
                                                            Thumb(k) \in call[c].names[k] => k <= m}}

MayFail(c) == call[c] # NoCall /\ call[c].pc # "undo"

ThrowUnchecked(c) ==   \* mutant: deletes also when no file was put yet
    /\ MayFail(c)
    /\ call' = [call EXCEPT ![c].pc = "undo", ![c].drop = {File(call[c].n)}]
    /\ UNCHANGED <<bucket, rows, clock, purge, lost>>

Throw(c) ==
    /\ MayFail(c)
    /\ call[c].op = "upload"
    /\ call[c].n # 0
    /\ call' = [call EXCEPT ![c].pc = "undo", ![c].drop = {File(call[c].n)} \cup LastThumb(c)]
    /\ UNCHANGED <<bucket, rows, clock, purge, lost>>

(* The deletions of the catch block; an error in one is logged and ignored. *)
UndoObject(c) ==
    /\ call[c].pc = "undo"
    /\ \E o \in call[c].drop :
          /\ bucket' \in {bucket, bucket \ {o}}
          /\ call' = [call EXCEPT ![c] = IF call[c].drop = {o} THEN NoCall
                                         ELSE [call[c] EXCEPT !.drop = @ \ {o}]]
    /\ UNCHANGED <<rows, clock, purge, lost>>

(* Any other failure: the process dies, the commit itself fails, an exception in a
   call without a catch block, as those of approvals.  Rollback, and no clean-up. *)
Crash(c) ==
    /\ call[c] # NoCall
    /\ call' = [call EXCEPT ![c] = NoCall]
    /\ Lose(call[c].dropped)
    /\ UNCHANGED <<bucket, rows, clock, purge>>

-----------------------------------------------------------------------------
(* The nightly job: purgeS3OrphanFiles runs purgeS3OrphanFilesEx on each
   directory, which lists the objects, ... *)
PurgeStart ==
    /\ purge = Resting
    /\ purge' = [pc |-> "list", dir |-> 1, keys |-> {}]
    /\ UNCHANGED <<bucket, rows, clock, call, lost>>

PurgeList ==
    /\ purge.pc = "list"
    /\ purge' = [purge EXCEPT !.pc = "find",
                              !.keys = {o \in bucket : o.dir = Dirs[purge.dir]}]
    /\ UNCHANGED <<bucket, rows, clock, call, lost>>

PurgeFindFilesOnly ==   \* mutant: thumbnailName left out of the query
    /\ purge.pc = "find"
    /\ purge' = [purge EXCEPT !.pc = "delete", !.keys = @ \ {o \in Named : o.dir = "docs"}]
    /\ Lose((purge.keys \ Named) \cap (Predefined \cup UNION {InHand(c) : c \in Running}))
    /\ UNCHANGED <<bucket, rows, clock, call>>

(* ... looks up the committed rows that name one of them, ... *)
PurgeFind ==
    /\ purge.pc = "find"
    /\ purge' = [purge EXCEPT !.pc = "delete", !.keys = @ \ Named]
    /\ Lose((purge.keys \ Named) \cap (Predefined \cup UNION {InHand(c) : c \in Running}))
    /\ UNCHANGED <<bucket, rows, clock, call>>

(* ... and deletes the others one by one. *)
PurgeObject ==
    /\ purge.pc = "delete"
    /\ \E o \in purge.keys :
          /\ bucket' = bucket \ {o}
          /\ purge' = [purge EXCEPT !.keys = @ \ {o}]
    /\ UNCHANGED <<rows, clock, call, lost>>

NextDir ==
    /\ purge' = IF purge.dir = 1 THEN [pc |-> "list", dir |-> 2, keys |-> {}] ELSE Resting
    /\ UNCHANGED <<bucket, rows, clock, call, lost>>


PurgeNext == purge.pc = "delete" /\ purge.keys = {} /\ NextDir

(* Any of these may throw: the catch block logs it and the directory is left. *)
PurgeFail == purge # Resting /\ NextDir

PurgeStep == PurgeStart \/ PurgeList \/ PurgeFind \/ PurgeObject \/ PurgeNext

CallStep(c) ==
    \/ StartUpload(c)
    \/ StartReplace(c)
    \/ StartDelete(c)
    \/ NextRow(c)
    \/ PutFile(c)
    \/ PutThumb(c)
    \/ SaveRow(c)
    \/ DropObject(c)
    \/ Commit(c)
    \/ Throw(c)
    \/ UndoObject(c)
    \/ Crash(c)

AttachmentsNext == PurgeStep \/ PurgeFail \/ \E c \in Calls : CallStep(c)

AttachmentsSpec == AttachmentsInit /\ [][AttachmentsNext]_attachmentVars

(* The job is started every night and, once started, runs on.  It may fail any number
   of nights, but not every night for ever. *)
FairSpec ==
    /\ AttachmentsSpec
    /\ WF_attachmentVars(PurgeStep)
    /\ <>[][~PurgeFail]_attachmentVars

-----------------------------------------------------------------------------
(* Every variable has its type. *)
AttachmentsTyped ==
    /\ bucket \subseteq Objects
    /\ DOMAIN rows \subseteq 1..MaxFiles
    /\ \A id \in DOMAIN rows : rows[id] \subseteq Objects
    /\ clock \in 0..MaxFiles
    /\ call \in [Calls -> {NoCall} \cup CallState]
    /\ purge \in {Resting} \cup PurgeState
    /\ lost \subseteq Objects

(* What calls in flight have deleted of the rows they replace or delete. *)
GoingAway == UNION {call[c].dropped : c \in Running}

(* Whatever calls overlap, fail or die, and with the job among them, every object that
   a committed row names is in S3, unless a call in flight has deleted it to replace or
   delete that row, or for one of three reasons: it is a predefined thumbnail that was
   deleted with another row, or by the job when no row named it; a replacement or a
   deletion deleted it and then failed; the job looked for its row before the call that
   put it had committed. *)
RowsHaveObjects == Named \ (GoingAway \cup lost) \subseteq bucket

(* What failed uploads and replaced files leave in S3 goes: an object that no row
   names and no call in flight can still name is deleted some night. *)
Reachable == Named \cup UNION {InHand(c) : c \in Running}

=============================================================================
