--------------------------- MODULE WorkspaceEdits ---------------------------
(* write_file, edit_file, preview_edit and import_file on a path of a        *)
(* registered workspace (packages/code/src/workspace.ts,                     *)
(* workspace-import.ts), beside a local user who works in the same           *)
(* directory.  A mutation that fails is either reported as having left the   *)
(* workspace alone ("clean"), or its workspace is quarantined ("unknown").   *)
(* The bridge runs one mutation of a root at a time.                         *)
EXTENDS Integers

CONSTANTS MaxUser, MaxFaults, MaxOps, None

(* create and write are write_file without and with overwrite; previewed is  *)
(* an edit_file that names the base of a preview; import and reimport are    *)
(* import_file without and with overwrite.                                   *)
Kinds == {"create", "write", "edit", "previewed", "import", "reimport"}
Edits == {"edit", "previewed"}
Imports == {"import", "reimport"}

VARIABLES
    dir,        \* the inode of the parent directory, 0 when there is none
    file,       \* the file at the path
    temp,       \* the staging file at its path in dir, or 0
    litter,     \* the kinds of operation whose staging file was left behind
    clock,      \* the last inode, or version of a text, that was made
    preview,    \* the text a preview has shown
    kind, pc, ops,
    seen,       \* the inode of the file the operation means to replace
    base,       \* the text an edit was computed from
    parent,     \* the directory the operation has verified
    made, ident,    \* the directory it created, and the one it opened after that
    staged,     \* the inode it staged
    installed, over,    \* whether it has installed it, and over what
    touched,    \* the user was active since the last check before the install
    aborted, verdict, result,
    anchored,   \* the root can be held by a descriptor
    user, faults

vars == <<dir, file, temp, litter, clock, preview, kind, pc, ops, seen, base, parent, made, ident,
          staged, installed, over, touched, aborted, verdict, result, anchored, user, faults>>
disk == <<dir, file, temp, litter, clock>>
plan == <<kind, seen, base, parent, made, ident, staged>>
done == <<installed, over, touched>>
rest == <<preview, ops, result, anchored, user>>

NoFile == [ino |-> 0, text |-> 0]
Edited(text) == text + 100
Content == CASE kind \in Edits -> Edited(base) [] kind \in Imports -> 60 [] OTHER -> 50

Init ==
    /\ clock = 3 /\ dir \in {0, 1} /\ temp = 0 /\ litter = {} /\ preview = None
    /\ file \in {NoFile} \cup (IF dir = 0 THEN {} ELSE {[ino |-> 2, text |-> 3]})
    /\ kind = None /\ pc = "idle" /\ ops = 0 /\ seen = 0 /\ base = None
    /\ parent = 0 /\ made = 0 /\ ident = 0 /\ staged = 0 /\ installed = FALSE /\ over = NoFile
    /\ touched = FALSE /\ aborted = FALSE /\ verdict = "clean" /\ result = "none"
    /\ anchored \in BOOLEAN /\ user = 0 /\ faults = 0
-----------------------------------------------------------------------------
(* The local user changes the file in place, replaces it, deletes it, and    *)
(* makes, moves away or removes the directory with what is in it.            *)
User ==
    /\ user < MaxUser /\ user' = user + 1 /\ touched' = TRUE /\ clock' = clock + 2
    /\ \/ /\ file # NoFile /\ file' = [file EXCEPT !.text = clock + 1] /\ UNCHANGED <<dir, temp>>
       \/ /\ dir # 0 /\ file' = [ino |-> clock + 1, text |-> clock + 2] /\ UNCHANGED <<dir, temp>>
       \/ file # NoFile /\ file' = NoFile /\ UNCHANGED <<dir, temp>>
       \/ dir = 0 /\ dir' = clock + 1 /\ UNCHANGED <<file, temp>>
       \/ dir # 0 /\ dir' \in {0, clock + 1} /\ file' = NoFile /\ temp' = 0
    /\ UNCHANGED <<litter, preview, ops, plan, pc, installed, over, aborted, verdict, result,
                   anchored, faults>>

Abort ==
    /\ pc # "idle" /\ ~aborted /\ aborted' = TRUE
    /\ UNCHANGED <<disk, plan, pc, done, verdict, rest, faults>>

Quiet == UNCHANGED <<aborted, rest>>

(* The operation fails before, or after, the workspace may have changed.     *)
Fails(v) == pc' = "cleanup" /\ verdict' = v
Goes(l) == pc' = l /\ UNCHANGED verdict
Fault == faults < MaxFaults /\ faults' = faults + 1

(* preview_edit only reads.                                                  *)
Preview ==
    /\ pc = "idle" /\ file # NoFile /\ preview = None /\ preview' = file.text
    /\ UNCHANGED <<disk, plan, pc, ops, done, aborted, verdict, result, anchored, user, faults>>

(* A mutation begins; after an unknown outcome the workspace is quarantined. *)
Begin ==
    /\ pc = "idle" /\ result # "unknown" /\ ops < MaxOps /\ ops' = ops + 1
    /\ kind' \in Kinds /\ (kind' = "previewed" => preview # None)
    /\ pc' = CASE kind' \in Edits -> "read" [] kind' \in Imports -> "inspect" [] OTHER -> "parents"
    /\ seen' = 0 /\ base' = None /\ parent' = 0 /\ made' = 0 /\ ident' = 0 /\ staged' = 0
    /\ installed' = FALSE /\ over' = NoFile /\ touched' = FALSE /\ aborted' = FALSE
    /\ verdict' = "clean" /\ result' = "none"
    /\ UNCHANGED <<disk, preview, anchored, user, faults>>

(* (The signal is obeyed also when parents were created.)                    *)
StopsAlways == aborted

(* Once a write has created its parents it no longer obeys the signal.       *)
Stops == aborted /\ (kind \in {"create", "write"} => made = 0)

(* createMissingParentDirectories: only under a held root.                   *)
MakeParents ==
    /\ pc = "parents"
    /\ \/ Stops /\ Fails("clean") /\ UNCHANGED <<dir, made, clock, faults>>
       \/ /\ ~Stops /\ (dir # 0 \/ ~anchored)
          /\ Goes(IF kind \in Imports THEN "modes" ELSE "look")
          /\ UNCHANGED <<dir, made, clock, faults>>
       \/ Fault /\ Fails("clean") /\ UNCHANGED <<dir, made, clock>>
       \/ /\ ~Stops /\ dir = 0 /\ anchored /\ clock' = clock + 1 /\ dir' = clock' /\ made' = clock'
          /\ \/ Goes(IF kind \in Imports THEN "modes" ELSE "look") /\ UNCHANGED faults
             \/ Fault /\ Fails("unknown")
    /\ UNCHANGED <<file, temp, litter, kind, seen, base, parent, ident, staged, done>> /\ Quiet

(* setImportDirectoryModes: remember which directory the import created.     *)
OpenCreated ==
    /\ pc = "modes"
    /\ \/ made = 0 /\ Goes("look") /\ UNCHANGED <<ident, faults>>
       \/ made # 0 /\ dir # 0 /\ ident' = dir /\ Goes("look") /\ UNCHANGED faults
       \/ made # 0 /\ dir = 0 /\ Fails("clean") /\ UNCHANGED <<ident, faults>>
       \/ made # 0 /\ Fault /\ Fails("clean") /\ UNCHANGED ident
    /\ UNCHANGED <<disk, kind, seen, base, parent, made, staged, done>> /\ Quiet

(* inspectImportTarget: an equal file needs no import.                       *)
Target ==
    CASE file = NoFile -> "missing"
      [] file.text = Content -> "unchanged"
      [] OTHER -> "different"

(* importWorkspaceFile, up to the creation of the parents.                   *)
Inspect ==
    /\ pc = "inspect"
    /\ \/ /\ aborted \/ (Target = "different" /\ kind = "import")
          /\ Fails("clean") /\ UNCHANGED <<seen, result>>
       \/ ~aborted /\ Target = "missing" /\ Goes("parents") /\ UNCHANGED <<seen, result>>
       \/ /\ ~aborted /\ Target = "different" /\ kind = "reimport"
          /\ seen' = file.ino /\ Goes("parents") /\ UNCHANGED result
       \/ ~aborted /\ Target = "unchanged" /\ Goes("idle") /\ result' = "unchanged" /\ UNCHANGED seen
    /\ UNCHANGED <<disk, kind, base, parent, made, ident, staged, done, aborted, preview, ops,
                   anchored, user, faults>>

(* editWorkspaceFile reads the file; the edits may not apply to it.          *)
Read ==
    /\ pc = "read"
    /\ \/ /\ file # NoFile /\ (kind = "previewed" => file.text = preview)
          /\ seen' = file.ino /\ base' = file.text /\ Goes("look")
       \/ Fails("clean") /\ UNCHANGED <<seen, base>>
    /\ UNCHANGED <<disk, kind, parent, made, ident, staged, done, faults>> /\ Quiet
-----------------------------------------------------------------------------
(* The parent is verified and, by a write, the file is looked up.            *)
Expected ==
    CASE kind = "create" -> file = NoFile
      [] kind \in Edits -> file.ino = seen
      [] OTHER -> TRUE
Look ==
    /\ pc = "look"
    /\ \/ /\ dir # 0 /\ parent' = dir /\ Expected /\ Goes("stage") /\ (kind \in Imports \/ ~Stops)
          /\ seen' = IF kind = "write" THEN file.ino ELSE seen
          /\ UNCHANGED faults
       \/ /\ (dir = 0 \/ ~Expected \/ (kind \notin Imports /\ Stops)) /\ Fails("clean")
          /\ UNCHANGED <<seen, parent, faults>>
       \/ Fault /\ Fails("clean") /\ UNCHANGED <<seen, parent>>
    /\ UNCHANGED <<disk, kind, base, made, ident, staged, done>> /\ Quiet

(* An import is streamed from its source, which may stall, break off, be     *)
(* cancelled, or not be what was declared.                                   *)
Arrives == kind \in Imports => ~aborted
BreaksOff == kind \in Imports /\ Fails("clean")

(* The content is staged next to the target.                                 *)
Stage ==
    /\ pc = "stage"
    /\ \/ /\ dir # 0 /\ clock' = clock + 1 /\ staged' = clock' /\ temp' = clock'
          /\ \/ Arrives /\ Goes("check1") /\ UNCHANGED faults
             \/ BreaksOff /\ UNCHANGED faults
             \/ Fault /\ Fails("clean")
       \/ dir = 0 /\ Fails("clean") /\ UNCHANGED <<clock, staged, temp, faults>>
       \/ Fault /\ Fails("clean") /\ UNCHANGED <<clock, staged, temp>>
    /\ UNCHANGED <<dir, file, litter, kind, seen, base, parent, made, ident, done>> /\ Quiet

(* Writes look at the file again and then at the parent, imports the other   *)
(* way round; an edit then compares the content.                             *)
LooksAtFile == pc = IF kind \in Imports THEN "check2" ELSE "check1"
Recheck ==
    /\ pc \in {"check1", "check2"}
    /\ touched' = IF LooksAtFile THEN FALSE ELSE touched
    /\ \/ /\ IF LooksAtFile THEN file.ino = seen ELSE dir = parent
          /\ Goes(CASE pc = "check1" -> "check2"
                    [] kind \in Edits -> "verify"
                    [] OTHER -> "install")
       \/ (IF LooksAtFile THEN file.ino # seen ELSE dir # parent) /\ Fails("clean")
    /\ UNCHANGED <<disk, plan, installed, over, faults>> /\ Quiet

(* commitVerifiedEdit opens the file and reads it once more.                 *)
Verify ==
    /\ pc = "verify" /\ touched' = FALSE
    /\ \/ file = [ino |-> seen, text |-> base] /\ Goes("install")
       \/ file # [ino |-> seen, text |-> base] /\ Fails("clean")
    /\ UNCHANGED <<disk, plan, installed, over, faults>> /\ Quiet

(* A file that was not there is linked, so that a new one is not replaced.   *)
Exclusive == kind = "create" \/ (kind \in Imports /\ seen = 0)

Install ==
    /\ pc = "install"
    /\ \/ /\ ~Stops /\ temp = staged /\ (Exclusive => file = NoFile)
          /\ file' = [ino |-> staged, text |-> Content]
          /\ installed' = TRUE /\ over' = file /\ temp' = IF Exclusive THEN temp ELSE 0
          /\ Goes(IF Exclusive THEN "unlink" ELSE "confirm") /\ UNCHANGED faults
       \/ /\ Stops \/ temp # staged \/ (Exclusive /\ file # NoFile)
          /\ Fails("clean") /\ UNCHANGED <<file, installed, over, temp, faults>>
       \/ Fault /\ Fails("clean") /\ UNCHANGED <<file, installed, over, temp>>
    /\ UNCHANGED <<dir, litter, clock, plan, touched>> /\ Quiet

(* The second name of a linked file is removed.                              *)
Unlink ==
    /\ pc = "unlink"
    /\ \/ temp = staged /\ temp' = 0 /\ Goes("confirm") /\ UNCHANGED faults
       \/ temp # staged /\ Fails("unknown") /\ UNCHANGED <<temp, faults>>
       \/ Fault /\ Fails("unknown") /\ UNCHANGED temp
    /\ UNCHANGED <<dir, file, litter, clock, plan, done>> /\ Quiet

(* confirmInstalledMutation, confirmInstalledImport.                         *)
Confirms == file.ino = staged /\ (kind \in Imports \/ file.text = Content)
Confirm ==
    /\ pc = "confirm"
    /\ \/ Confirms /\ Goes("idle") /\ result' = "done" /\ UNCHANGED faults
       \/ ~Confirms /\ Fails("unknown") /\ UNCHANGED <<result, faults>>
       \/ Fault /\ Fails("unknown") /\ UNCHANGED result
    /\ UNCHANGED <<disk, plan, done, aborted, preview, ops, anchored, user>>

(* The staging file is removed.  An import says so when it cannot; a write   *)
(* does not.                                                                 *)
Cleanup ==
    /\ pc = "cleanup" /\ pc' = "undo" /\ temp' = 0
    /\ \/ UNCHANGED <<verdict, litter, faults>>
       \/ /\ temp # 0 /\ Fault /\ litter' = litter \cup {kind}
          /\ verdict' = IF kind \in Imports THEN "unknown" ELSE verdict
    /\ UNCHANGED <<dir, file, clock, plan, done>> /\ Quiet

(* Created parents stay after a write, which is then never clean; an import  *)
(* removes its own while they are empty, or is not clean either.             *)
Undo ==
    LET removes == kind \in Imports /\ made # 0 /\ verdict = "clean"
                   /\ ident # 0 /\ dir = ident /\ file = NoFile /\ kind \notin litter IN
    /\ pc = "undo" /\ pc' = "idle"
    /\ \/ removes /\ dir' = 0 /\ result' = "clean" /\ UNCHANGED faults
       \/ ~removes /\ result' = (IF made # 0 THEN "unknown" ELSE verdict) /\ UNCHANGED <<dir, faults>>
       \/ removes /\ Fault /\ result' = "unknown" /\ UNCHANGED dir
    /\ UNCHANGED <<file, temp, litter, clock, plan, done, aborted, verdict, preview, ops, anchored, user>>

Next ==
    \/ User \/ Abort \/ Preview \/ Begin \/ MakeParents \/ OpenCreated \/ Inspect \/ Read \/ Look
    \/ Stage \/ Recheck \/ Verify \/ Install \/ Unlink \/ Confirm \/ Cleanup \/ Undo

Spec == Init /\ [][Next]_vars
-----------------------------------------------------------------------------
TypeOK ==
    /\ result \in {"none", "done", "unchanged", "clean", "unknown"} /\ verdict \in {"clean", "unknown"}
    /\ litter \subseteq Kinds /\ (dir = 0 => file = NoFile /\ temp = 0)

(* A mutation reported to have left the workspace alone has done so: nothing *)
(* installed, no directory it made, no bytes of an import.                   *)
CleanLeavesNothing ==
    pc = "idle" /\ result = "clean" =>
        ~installed /\ (made # 0 => dir # made) /\ (kind \in Imports => kind \notin litter)

(* What was installed replaced the file that was looked at, an edit the very *)
(* text it was computed from, unless the user came between the last check    *)
(* and the install; a file that was not there is never replaced.             *)
OthersKept ==
    installed /\ over # NoFile =>
        /\ ~Exclusive
        /\ touched \/ (over.ino = seen /\ (kind \in Edits => over.text = base))

(* An edit made from a preview edits what was previewed.                     *)
PreviewedBase == installed /\ kind = "previewed" => base = preview

(* Without a fault and without the user there is no need for a quarantine,   *)
(* whenever the request is cancelled.                                        *)
NoNeedlessQuarantine == result = "unknown" => faults > 0 \/ user > 0

(* A workspace mutation is all or nothing, or says that it is not: clean     *)
(* failures left nothing behind, a user's work is not overwritten unseen,    *)
(* and a cancellation alone never leads to a quarantine (workspace.ts:       *)
(* atomicWriteConfinedFile, importWorkspaceFile, afterCreatedDirectories).   *)
EditsSafe == TypeOK /\ CleanLeavesNothing /\ OthersKept /\ PreviewedBase /\ NoNeedlessQuarantine
=============================================================================
