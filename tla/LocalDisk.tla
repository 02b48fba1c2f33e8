----------------------------- MODULE LocalDisk -----------------------------
(***************************************************************************)
(* runtime/storage: the local driver, with uploads.  A Put writes a file   *)
(* of its own next to the target and renames it; readers keep the file     *)
(* they opened.  Any call of the operating system may fail, and the        *)
(* process may die: its files stay.                                        *)
(*                                                                         *)
(* A file is named by the Put that wrote it and has its length for content.*)
(***************************************************************************)
EXTENDS Integers

CONSTANTS
  Names,    \* the paths, cleaned by resolve
  Users,    \* the goroutines that use the disk
  Chunks,   \* the writes that a content takes
  MaxPuts   \* bound: the Puts that get as far as a file

ASSUME DiskAssumption == Chunks \in Nat \ {0} /\ MaxPuts \in Nat

Puts == 1..MaxPuts

VARIABLES
  files,    \* the file under each name, 0 for none
  staged,   \* the files under a temporary name
  written,  \* the length of each file
  puts,     \* how many there are
  does,     \* what each user does
  name,     \* under which name
  file,     \* with which file
  read,     \* how much a reader has of its file
  got       \* history: the files that were read to their end, and how much that was

diskVars == <<files, staged, written, puts, does, name, file, read, got>>

DiskInit ==
  /\ files = [n \in Names |-> 0]
  /\ staged = {}
  /\ written = [p \in Puts |-> 0]
  /\ puts = 0
  /\ does = [u \in Users |-> "idle"]
  /\ name = [u \in Users |-> CHOOSE n \in Names : TRUE]
  /\ file = [u \in Users |-> 0]
  /\ read = [u \in Users |-> 0]
  /\ got = {}

Becomes(u, what) == does' = [does EXCEPT ![u] = what]

\* CreateTemp in the directory of the target, which is made if it is missing;
\* a Put that fails before has done nothing.
PutStages(u, n) ==
  /\ does[u] = "idle" /\ puts < MaxPuts
  /\ puts' = puts + 1
  /\ staged' = staged \cup {puts'}
  /\ name' = [name EXCEPT ![u] = n]
  /\ file' = [file EXCEPT ![u] = puts']
  /\ Becomes(u, "copy")
  /\ UNCHANGED <<files, written, read, got>>

\* One write of io.Copy.
PutCopies(u) ==
  /\ does[u] = "copy" /\ written[file[u]] < Chunks
  /\ written' = [written EXCEPT ![file[u]] = @ + 1]
  /\ UNCHANGED <<files, staged, puts, does, name, file, read, got>>

\* Copy, Close or Rename fails: the file is removed.
PutFails(u) ==
  /\ does[u] \in {"copy", "rename"}
  /\ staged' = staged \ {file[u]}
  /\ Becomes(u, "idle")
  /\ UNCHANGED <<files, written, puts, name, file, read, got>>

\* Mutant: the error of the copy is dropped.
CopiedSome(p) == TRUE

Copied(p) == written[p] = Chunks

PutCloses(u) ==
  /\ does[u] = "copy" /\ Copied(file[u])
  /\ Becomes(u, "rename")
  /\ UNCHANGED <<files, staged, written, puts, name, file, read, got>>

PutRenames(u) ==
  /\ does[u] = "rename"
  /\ files' = [files EXCEPT ![name[u]] = file[u]]
  /\ staged' = staged \ {file[u]}
  /\ Becomes(u, "idle")
  /\ UNCHANGED <<written, puts, name, file, read, got>>

\* Get; a name that is not there is ErrNotFound.
GetOpens(u, n) ==
  /\ does[u] = "idle" /\ files[n] # 0
  /\ name' = [name EXCEPT ![u] = n]
  /\ file' = [file EXCEPT ![u] = files[n]]
  /\ read' = [read EXCEPT ![u] = 0]
  /\ Becomes(u, "read")
  /\ UNCHANGED <<files, staged, written, puts, got>>

\* The caller reads on, to the end of the file.
ReaderReads(u) ==
  /\ does[u] = "read"
  /\ IF read[u] < written[file[u]]
     THEN read' = [read EXCEPT ![u] = @ + 1] /\ UNCHANGED <<does, got>>
     ELSE /\ got' = got \cup {<<file[u], read[u]>>}
          /\ Becomes(u, "idle")
          /\ UNCHANGED read
  /\ UNCHANGED <<files, staged, written, puts, name, file>>

\* Delete; a name that is not there is no error.
Delete(n) ==
  /\ files[n] # 0
  /\ files' = [files EXCEPT ![n] = 0]
  /\ UNCHANGED <<staged, written, puts, does, name, file, read, got>>

\* The process dies and is started again.
Dies ==
  /\ \E u \in Users : does[u] # "idle"
  /\ does' = [u \in Users |-> "idle"]
  /\ UNCHANGED <<files, staged, written, puts, name, file, read, got>>

DiskNext ==
  \/ \E u \in Users :
       \/ \E n \in Names : PutStages(u, n) \/ GetOpens(u, n)
       \/ PutCopies(u) \/ PutFails(u) \/ PutCloses(u) \/ PutRenames(u) \/ ReaderReads(u)
  \/ \E n \in Names : Delete(n)
  \/ Dies

DiskSpec == DiskInit /\ [][DiskNext]_diskVars

-----------------------------------------------------------------------------
(* "Readers never observe partial writes": whatever is under a name, or was *)
(* read from one, is the whole content of one Put, though other Puts,       *)
(* deletions, failures and the death of the process go between; and nobody  *)
(* writes to a file that is under a name.                                   *)
WholeFiles ==
  /\ \A n \in Names : files[n] # 0 => written[files[n]] = Chunks
  /\ \A g \in got : g[2] = Chunks
  /\ \A u \in Users, n \in Names : does[u] = "copy" => files[n] # file[u]

=============================================================================
