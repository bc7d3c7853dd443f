---------------------------- MODULE CameraFolder ----------------------------
(***************************************************************************)
(* The Sony picture folder of this PC and its two writers: the USB         *)
(* importer, which pulls what it lists on the phone, and the receiver of   *)
(* the phone's own uploads, which takes parts and receipts over FTP,       *)
(* verifies them, files them and acknowledges.  Each writer looks for a    *)
(* free name and fills it later, in a thread of its own, under no lock     *)
(* they share.  A process that is killed leaves parts, receipts and files  *)
(* as they are, and forgets the receipts it had queued.                    *)
(***************************************************************************)
EXTENDS Naturals, Sequences

CONSTANTS
    Photos,          \* originals, told apart by their content
    Names,           \* the file names the camera gives
    NameOf,          \* the name of each photo: the camera uses names again
    NoPhoto,
    MaxReceipts,     \* receipts waiting for the worker
    MaxFolderCrashes

ASSUME FolderAssumption ==
    /\ NameOf \in [Photos -> Names]
    /\ Photos \cap Names = {} /\ NoPhoto \notin Photos
    /\ MaxReceipts \in Nat /\ MaxFolderCrashes \in Nat

VARIABLES
    onPhone,         \* the photo the phone holds under each name
    folder,          \* the file of each name, and of each name__hash
    part,            \* of each upload the receiver has the whole file, or less
    receipts,        \* receipt files in the incoming directory
    receiptQueue,    \* receipts handed to the one worker
    worker,          \* what the worker is doing
    acked,           \* acknowledgement files
    uploader,        \* what the phone is doing
    puller,          \* what the USB importer is doing
    listed,          \* what it has listed on the phone and not dealt with
    raced,           \* history: photos lost to a name taken meanwhile, and not filed again
    folderCrashes

folderVars == <<onPhone, folder, part, receipts, receiptQueue, worker, acked, uploader,
                puller, listed, raced, folderCrashes>>

\* A photo's file under its own name, or under that name and its hash.
Place == Names \cup Photos
AtRest == [step |-> "idle", photo |-> NoPhoto, place |-> NoPhoto, found |-> NoPhoto]
Resting == [step |-> "idle", photo |-> NoPhoto]

FolderInit ==
    /\ onPhone = [n \in Names |-> NoPhoto]
    /\ folder = [f \in Place |-> NoPhoto]
    /\ part = [p \in Photos |-> "short"]
    /\ receipts = {} /\ receiptQueue = <<>> /\ acked = {} /\ raced = {}
    /\ worker = AtRest
    /\ uploader = Resting
    /\ puller = AtRest /\ listed = {}
    /\ folderCrashes = 0

phoneVars == <<onPhone, uploader>>
pullVars == <<puller, listed>>
receiverVars == <<receipts, receiptQueue, worker, acked>>

\* The camera app brings a photo to the phone, in place of one of that name.
PhotoReachesPhone(p) ==
    /\ onPhone[NameOf[p]] # p
    /\ onPhone' = [onPhone EXCEPT ![NameOf[p]] = p]
    /\ UNCHANGED <<folder, part, receiverVars, uploader, pullVars, raced, folderCrashes>>

-----------------------------------------------------------------------------
(* The phone uploads what has no acknowledgement. *)

WaitsForMore(p) == IF part[p] = "whole" THEN "waiting" ELSE "sending"

\* A part of the full size is not sent again, only its receipt is.
FirstPart(p) == IF part[p] = "whole" THEN "filed" ELSE "sending"

BeginUpload(p) ==
    /\ uploader.step = "idle"
    /\ onPhone[NameOf[p]] = p
    /\ p \notin acked
    /\ uploader' = [step |-> FirstPart(p), photo |-> p]
    /\ UNCHANGED <<onPhone, folder, part, receiverVars, pullVars, raced, folderCrashes>>

UploadPart ==
    /\ uploader.step = "sending"
    /\ part' = [part EXCEPT ![uploader.photo] = "whole"]
    /\ uploader' = [uploader EXCEPT !.step = "filed"]
    /\ UNCHANGED <<onPhone, folder, receiverVars, pullVars, raced, folderCrashes>>

\* on_file_received hands a receipt to the worker.
UploadReceipt ==
    /\ uploader.step = "filed"
    /\ Len(receiptQueue) < MaxReceipts
    /\ receipts' = receipts \cup {uploader.photo}
    /\ receiptQueue' = Append(receiptQueue, uploader.photo)
    /\ uploader' = [uploader EXCEPT !.step = "waiting"]
    /\ UNCHANGED <<onPhone, folder, part, worker, acked, pullVars, raced, folderCrashes>>

\* The acknowledgement is there, the wait for it is over, or the connection
\* broke, with part of the file written.
EndUpload ==
    /\ uploader.step # "idle"
    /\ uploader' = Resting
    /\ UNCHANGED <<onPhone, folder, part, receiverVars, pullVars, raced, folderCrashes>>

-----------------------------------------------------------------------------
(* Choosing a name for a photo and filling it. *)

Target(p) == IF folder[NameOf[p]] \in {NoPhoto, p} THEN NameOf[p] ELSE p

TargetUnchecked(p) == NameOf[p]

Chosen(p) == Target(p)

\* os.replace puts the file there whatever is there by now.
Fill(job) ==
    /\ folder' = [folder EXCEPT ![job.place] = job.photo]
    /\ raced' = (IF folder[job.place] = job.found THEN raced
                 ELSE raced \cup {folder[job.place]}) \ {job.photo}

-----------------------------------------------------------------------------
(* The receipt worker. *)

\* An exception in the worker goes nowhere: the receipt is just not answered.
TakeReceipt ==
    LET p == Head(receiptQueue) IN
    /\ worker = AtRest /\ receiptQueue # <<>>
    /\ receiptQueue' = Tail(receiptQueue)
    /\ worker' = IF p \in receipts /\ part[p] = "whole"
                 THEN [AtRest EXCEPT !.step = "verified", !.photo = p] ELSE AtRest
    /\ UNCHANGED <<phoneVars, folder, part, receipts, acked, pullVars, raced, folderCrashes>>

\* The photo is there already, or a name is chosen for it.
ChoosePlace ==
    LET p == worker.photo
        place == Chosen(p) IN
    /\ worker.step = "verified"
    /\ worker' = [step |-> IF folder[place] = p THEN "published" ELSE "moving",
                  photo |-> p, place |-> place, found |-> folder[place]]
    /\ part' = IF folder[place] = p THEN [part EXCEPT ![p] = "short"] ELSE part
    /\ UNCHANGED <<phoneVars, folder, receipts, receiptQueue, acked, pullVars, raced,
                   folderCrashes>>

Publish ==
    /\ worker.step = "moving"
    /\ Fill(worker)
    /\ part' = [part EXCEPT ![worker.photo] = "short"]
    /\ worker' = [worker EXCEPT !.step = "published"]
    /\ UNCHANGED <<phoneVars, receipts, receiptQueue, acked, pullVars, folderCrashes>>

Acknowledge ==
    /\ worker.step = "published"
    /\ acked' = acked \cup {worker.photo}
    /\ receipts' = receipts \ {worker.photo}
    /\ worker' = AtRest
    /\ UNCHANGED <<phoneVars, folder, part, receiptQueue, pullVars, raced, folderCrashes>>

\* The summary or the acknowledgement cannot be written.
WorkerFails ==
    /\ worker.step = "published"
    /\ worker' = AtRest
    /\ UNCHANGED <<phoneVars, folder, part, receipts, receiptQueue, acked, pullVars, raced,
                   folderCrashes>>

-----------------------------------------------------------------------------
(* The USB importer, once the camera app has brought new photos over. *)

EveryName == {onPhone[n] : n \in Names}

OnThePhone == {onPhone[n] : n \in Names} \ {NoPhoto}

\* Every file on the phone is listed and hashed.
ListPhone ==
    /\ puller.step = "idle"
    /\ listed' = OnThePhone
    /\ listed' # {}
    /\ puller' = [AtRest EXCEPT !.step = "next"]
    /\ UNCHANGED <<phoneVars, folder, part, receiverVars, raced, folderCrashes>>

\* A file that is there is skipped, another is pulled to a name chosen now.
PullNext(p) ==
    LET place == Chosen(p) IN
    /\ puller.step = "next" /\ p \in listed
    /\ listed' = listed \ {p}
    /\ puller' = IF folder[place] = p THEN puller
                 ELSE [step |-> "pulling", photo |-> p, place |-> place,
                       found |-> folder[place]]
    /\ UNCHANGED <<phoneVars, folder, part, receiverVars, raced, folderCrashes>>

\* The pulled file has the size and hash listed, and moves to its name.
PullEnds ==
    /\ puller.step = "pulling"
    /\ onPhone[NameOf[puller.photo]] = puller.photo
    /\ Fill(puller)
    /\ puller' = [AtRest EXCEPT !.step = "next"]
    /\ UNCHANGED <<phoneVars, part, receiverVars, listed, folderCrashes>>

\* All is copied; or the file changed on the phone, or a command failed.
StopPulling ==
    /\ puller.step # "idle"
    /\ puller' = AtRest /\ listed' = {}
    /\ UNCHANGED <<phoneVars, folder, part, receiverVars, raced, folderCrashes>>

\* Uploads in progress end with their connection.
FolderCrash ==
    /\ folderCrashes < MaxFolderCrashes
    /\ folderCrashes' = folderCrashes + 1
    /\ receiptQueue' = <<>>
    /\ worker' = AtRest
    /\ uploader' = Resting
    /\ puller' = AtRest /\ listed' = {}
    /\ UNCHANGED <<onPhone, folder, part, receipts, acked, raced>>

FolderNext ==
    \/ UploadPart \/ UploadReceipt \/ EndUpload
    \/ TakeReceipt \/ ChoosePlace \/ Publish \/ Acknowledge \/ WorkerFails
    \/ ListPhone \/ PullEnds \/ StopPulling \/ FolderCrash
    \/ \E p \in Photos : PhotoReachesPhone(p) \/ BeginUpload(p) \/ PullNext(p)

FolderFairness ==
    /\ \A p \in Photos : WF_folderVars(BeginUpload(p))
    /\ SF_folderVars(UploadPart \/ UploadReceipt)
    /\ WF_folderVars(TakeReceipt \/ ChoosePlace \/ Publish)
    /\ SF_folderVars(Acknowledge)
    /\ WF_folderVars(uploader.step = "waiting" /\ EndUpload)

FolderSpec == FolderInit /\ [][FolderNext]_folderVars /\ FolderFairness

-----------------------------------------------------------------------------
FolderJobs(steps) == [step : steps, photo : Photos \cup {NoPhoto},
                place : Place \cup {NoPhoto}, found : Photos \cup {NoPhoto}]

(* Receipts, acknowledgements, listings and jobs name photos there are, and *)
(* no more receipts wait than the bound.                                    *)
FolderTypeOK ==
    /\ onPhone \in [Names -> Photos \cup {NoPhoto}]
    /\ folder \in [Place -> Photos \cup {NoPhoto}]
    /\ part \in [Photos -> {"short", "whole"}]
    /\ receipts \subseteq Photos /\ acked \subseteq Photos
    /\ raced \subseteq Photos /\ listed \subseteq Photos
    /\ receiptQueue \in Seq(Photos) /\ Len(receiptQueue) <= MaxReceipts
    /\ worker \in FolderJobs({"idle", "verified", "moving", "published"})
    /\ puller \in FolderJobs({"idle", "next", "pulling"})
    /\ uploader \in [step : {"idle", "sending", "filed", "waiting"},
                     photo : Photos \cup {NoPhoto}]
    /\ folderCrashes \in 0..MaxFolderCrashes

OnPc(p) == \E place \in Place : folder[place] = p

(* An acknowledged upload is in the folder of this PC: the phone will never *)
(* send it again, and says of it that it is verified on this PC.            *)
AcknowledgedStays == \A p \in acked : OnPc(p)

(* It can only be missing because a writer filled a name that was free when *)
(* it looked and taken when it moved: nothing else loses it, neither a      *)
(* crash between any two steps, nor a repeated receipt, nor a second photo  *)
(* of the same name, nor a photo replaced on the phone while it is pulled.  *)
OnlyRacesLoseUploads == acked \subseteq {p \in Photos : OnPc(p)} \cup raced

(* A photo that stays on the phone is acknowledged in the end, whatever     *)
(* crashed on the way: a part without a receipt is taken up again, and one  *)
(* that was filed but not acknowledged is uploaded anew and recognised.     *)
PhotosAcknowledged ==
    \A p \in Photos : <>[](onPhone[NameOf[p]] = p) => []<>(p \in acked)

(* The safety of the folder: its types, and what an acknowledgement is worth. *)
UploadsAreSafe == FolderTypeOK /\ OnlyRacesLoseUploads
=============================================================================
