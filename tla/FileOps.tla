------------------------------- MODULE FileOps -------------------------------
(* The operations on files of a workspace (filesystem/ops.rs) and the trash   *)
(* deleted files are moved to (filesystem/trash.rs), with a crash between any *)
(* two steps of a move.  A path stands for one that the boundary check let    *)
(* pass, its content for the number of the write it comes from.               *)
EXTENDS Integers, FiniteSets

CONSTANTS
    FilePaths, HiddenPaths, HardenedPaths,
    InitialFiles,       \* path -> content
    MaxWrites,          \* bound on the contents
    MaxClock            \* bound on the timestamps, which may repeat

NoFile == 0
TornFile == -1
Guarded == HiddenPaths \union HardenedPaths

ASSUME FileOpsAssumption ==
    Guarded \subseteq FilePaths /\ InitialFiles \in [FilePaths -> 0 .. Cardinality(FilePaths)]

VARIABLES
    files,              \* path -> content
    trash,              \* .suis/trash: timestamp and path -> content
    entries,            \* the TrashEntries that were returned
    copy,               \* the copy and removal by which a file moves that cannot be renamed
    clock, writes,      \* the time; how many contents there were
    overwritten         \* contents that a write or a move to their place replaced

fileVars == <<files, trash, entries, copy, clock, writes, overwritten>>

Places == (0 .. MaxClock) \X FilePaths
NoCopy == [at |-> "none", back |-> FALSE, place |-> <<0, 0>>]

FilesInit ==
    /\ files = InitialFiles /\ trash = [l \in Places |-> NoFile] /\ entries = {}
    /\ copy = NoCopy
    /\ clock = 0 /\ writes = Cardinality(FilePaths) /\ overwritten = {}

OnDisk(p) == files[p] # NoFile
Replaced(content) == overwritten' = overwritten \union {content}

\* write_atomic: a crash on the way leaves what was there.
WriteAtomic(p) ==
    /\ writes < MaxWrites /\ writes' = writes + 1
    /\ files' = [files EXCEPT ![p] = writes']
    /\ Replaced(files[p])
    /\ UNCHANGED <<trash, entries, copy, clock>>

\* ops::write.
WriteFile(p) == copy = NoCopy /\ p \notin Guarded /\ WriteAtomic(p)

\* ops::create.
CreateFile(p) == copy = NoCopy /\ ~OnDisk(p) /\ p \notin Guarded /\ WriteAtomic(p)

\* move_path of a place in the trash and its path: a rename, or else a copy.
Put(place, back, content) ==
    IF back
    THEN files' = [files EXCEPT ![place[2]] = content] /\ UNCHANGED trash
    ELSE trash' = [trash EXCEPT ![place] = content] /\ UNCHANGED files
Moved(place, back) ==
    /\ files' = [files EXCEPT ![place[2]] = IF back THEN trash[place] ELSE NoFile]
    /\ trash' = [trash EXCEPT ![place] = IF back THEN NoFile ELSE files[place[2]]]
Returned(place, back) == entries' = IF back THEN entries \ {place} ELSE entries \union {place}

MovePath(place, back) ==
    /\ Replaced(IF back THEN files[place[2]] ELSE trash[place])
    /\ \/ Moved(place, back) /\ Returned(place, back) /\ UNCHANGED copy
       \/ /\ Put(place, back, TornFile)
          /\ copy' = [at |-> "copying", back |-> back, place |-> place]
          /\ UNCHANGED entries
    /\ UNCHANGED <<clock, writes>>

\* ops::delete and trash: a file that is hidden or hardened too.
TrashFile(p) == copy = NoCopy /\ OnDisk(p) /\ MovePath(<<clock, p>>, FALSE)

\* restore: whatever lives at the path meanwhile is replaced.
RestoreFile(place) == copy = NoCopy /\ place \in entries /\ trash[place] # NoFile /\ MovePath(place, TRUE)

FinishCopy ==
    /\ copy.at = "copying" /\ copy' = [copy EXCEPT !.at = "copied"]
    /\ Put(copy.place, copy.back, IF copy.back THEN trash[copy.place] ELSE files[copy.place[2]])
    /\ UNCHANGED <<entries, clock, writes, overwritten>>

RemoveSource ==
    /\ copy.at = "copied" /\ copy' = NoCopy
    /\ Put(copy.place, ~copy.back, NoFile)
    /\ Returned(copy.place, copy.back)
    /\ UNCHANGED <<clock, writes, overwritten>>

\* The entries are in memory only.
CrashInMove ==
    /\ copy # NoCopy /\ copy' = NoCopy /\ entries' = {}
    /\ UNCHANGED <<files, trash, clock, writes, overwritten>>

TimePasses == clock < MaxClock /\ clock' = clock + 1 /\ UNCHANGED <<files, trash, entries, copy, writes, overwritten>>

FilesNext ==
    \/ \E p \in FilePaths : WriteFile(p) \/ CreateFile(p) \/ TrashFile(p)
    \/ \E place \in Places : RestoreFile(place)
    \/ FinishCopy \/ RemoveSource \/ CrashInMove \/ TimePasses

-----------------------------------------------------------------------------
Held == {files[p] : p \in FilePaths} \union {trash[l] : l \in Places}

\* A content stays, at its path or in the trash, whatever fails on the way, until
\* a write or a move to its very place replaces it; every entry that was returned
\* can be restored; and no write changed a path that is hidden or hardened.
NothingLost ==
    /\ {InitialFiles[p] : p \in FilePaths} \union (Cardinality(FilePaths) + 1 .. writes)
          \subseteq Held \union overwritten \union {NoFile}
    /\ \A place \in entries : trash[place] # NoFile
    /\ \A p \in Guarded : files[p] \in {InitialFiles[p], NoFile, TornFile}
=============================================================================
