------------------------------- MODULE Import -------------------------------
(***************************************************************************)
(* The upload of an archive for one application, src/src/backup_import.rs. *)
(* Every operation runs under the registry mutex, and the registry is      *)
(* saved after it. The write of a chunk is handed to a thread and not      *)
(* flushed before the answer, so that it reaches the file when it likes,   *)
(* or never if the agent is killed first.                                  *)
(***************************************************************************)
EXTENDS Naturals, Sequences, FiniteSets, SequencesExt

CONSTANTS
    Archives,        \* identifiers of uploads, random and never used twice
    Pieces,          \* chunks of an archive
    Slots,           \* uploads an account may have begun (2)
    MaxImportFaults  \* bound: saves that fail, answers that get lost, kills of the agent

ASSUME ImportAssumption == Pieces \in Nat \ {0} /\ Slots \in Nat /\ MaxImportFaults \in Nat

VARIABLES
    imports,       \* the registry in memory: uploads that were begun, archives that are listed
    savedImports,  \* and registry.json
    begun,         \* the identifiers that were drawn
    yesterday,     \* uploads that were begun more than a day ago
    part,          \* the uploads with a .part file
    cgp,           \* the archives with a .cgp file
    pieces,        \* what the file of an upload holds
    unflushed,     \* what was written and is not in the file yet
    answered,      \* the chunks an uploading client has an answer for
    pressing,      \* the operation that is done and not saved yet, and the answer it will give
    importFaults,
    repeated       \* uploads of which a chunk was sent again while the first was unflushed, for
                   \* the properties

importVars == <<imports, savedImports, begun, yesterday, part, cgp, pieces, unflushed, answered,
                pressing, importFaults, repeated>>

NoPress == [upload |-> {}, answer |-> 0, on |-> FALSE]

ImportInit ==
    /\ imports = [open |-> {}, listed |-> {}] /\ savedImports = imports
    /\ begun = {} /\ yesterday = {}
    /\ part = {} /\ cgp = {}
    /\ pieces = [u \in Archives |-> <<>>] /\ unflushed = pieces
    /\ answered = [u \in Archives |-> 0]
    /\ pressing = NoPress
    /\ importFaults = 0
    /\ repeated = {}

-----------------------------------------------------------------------------
ImportFault == importFaults < MaxImportFaults /\ importFaults' = importFaults + 1

\* An operation has done its work for the uploads in us, and will answer n.
Presses(us, n) ==
    /\ pressing = NoPress
    /\ pressing' = [upload |-> us, answer |-> n, on |-> TRUE]

\* The upload is known to the registry and has its file.
Known(u) == u \in imports.open /\ u \in part

Stale == imports.open \cap yesterday
Kept == imports.open \ yesterday

\* begin: uploads of yesterday are forgotten with their files, and then there must be a slot.
BeginImport(u) ==
    /\ u \notin begun /\ begun' = begun \cup {u}
    /\ Cardinality(Kept) < Slots
    /\ Presses({u}, 0)
    /\ part' = (part \ Stale) \cup {u}
    /\ imports' = [imports EXCEPT !.open = Kept \cup {u}]
    /\ UNCHANGED <<savedImports, yesterday, cgp, pieces, unflushed, answered, importFaults,
                   repeated>>

\* begin is refused, for want of a slot or because a file cannot be removed or made; what was
\* forgotten until then stays so.
RefuseImport(gone) ==
    /\ gone \subseteq Stale
    /\ \/ gone = Stale /\ Cardinality(Kept) >= Slots /\ UNCHANGED importFaults
       \/ ImportFault
    /\ Presses({}, 0)
    /\ part' = part \ gone
    /\ imports' = [imports EXCEPT !.open = @ \ gone]
    /\ UNCHANGED <<savedImports, begun, yesterday, cgp, pieces, unflushed, answered, repeated>>

\* The chunk after the last one its client has an answer for is appended; what it holds follows
\* from the offset it is sent for.
Appends(u) ==
    /\ Known(u) /\ answered[u] < Pieces
    /\ Presses({u}, answered[u] + 1)
    /\ unflushed' = [unflushed EXCEPT ![u] = Append(@, answered[u] + 1)]
    /\ repeated' = IF unflushed[u] # <<>> THEN repeated \cup {u} ELSE repeated
    /\ UNCHANGED <<imports, savedImports, begun, yesterday, part, cgp, pieces, answered,
                   importFaults>>

\* Mutant: the offset of the request is ignored.
ChunkAnywhere(u) == Appends(u)

\* chunk: an offset that is not the length of the file is refused.
ImportChunk(u) == Len(pieces[u]) = answered[u] /\ Appends(u)

\* Writes reach the file in any order.
Flush(u) ==
    \E i \in DOMAIN unflushed[u] :
        /\ pieces' = [pieces EXCEPT ![u] = Append(@, unflushed[u][i])]
        /\ unflushed' = [unflushed EXCEPT ![u] = RemoveAt(@, i)]
        /\ UNCHANGED <<imports, savedImports, begun, yesterday, part, cgp, answered, pressing,
                       importFaults, repeated>>

CancelImport(u) ==
    /\ Known(u)
    /\ Presses({}, 0)
    /\ part' = part \ {u}
    /\ imports' = [imports EXCEPT !.open = @ \ {u}]
    /\ UNCHANGED <<savedImports, begun, yesterday, cgp, pieces, unflushed, answered, importFaults,
                   repeated>>

\* finish: the file is as long as the archive, its directory is readable, which stands at the end
\* of it, and the upload becomes a listed archive under the same identifier.
FinishImport(u) ==
    /\ Known(u)
    /\ Len(pieces[u]) = Pieces /\ Last(pieces[u]) = Pieces
    /\ Presses({}, 0)
    /\ part' = part \ {u} /\ cgp' = cgp \cup {u}
    /\ imports' = [open |-> imports.open \ {u}, listed |-> imports.listed \cup {u}]
    /\ UNCHANGED <<savedImports, begun, yesterday, pieces, unflushed, answered, importFaults,
                   repeated>>

\* The dispatcher saves the registry and answers, also after an error. If the save fails an error
\* is answered; an answer may also get lost. Its client then sends the chunk again, or cancels.
SaveImports ==
    /\ pressing # NoPress /\ pressing' = NoPress
    /\ \/ savedImports' = imports /\ UNCHANGED importFaults
          /\ answered' = [u \in Archives |-> IF u \in pressing.upload THEN pressing.answer
                                             ELSE answered[u]]
       \/ ImportFault /\ savedImports' \in {savedImports, imports} /\ UNCHANGED answered
    /\ UNCHANGED <<imports, begun, yesterday, part, cgp, pieces, unflushed, repeated>>

\* A day passes.
Age(u) ==
    /\ u \in begun \ yesterday /\ yesterday' = yesterday \cup {u}
    /\ UNCHANGED <<imports, savedImports, begun, part, cgp, pieces, unflushed, answered, pressing,
                   importFaults, repeated>>

\* The agent is killed and starts with the registry it saved last.
KillImports ==
    /\ ImportFault
    /\ imports' = savedImports /\ pressing' = NoPress
    /\ unflushed' = [u \in Archives |-> <<>>]
    /\ UNCHANGED <<savedImports, begun, yesterday, part, cgp, pieces, answered, repeated>>

ImportNext ==
    \/ \E u \in Archives :
           \/ BeginImport(u) \/ ImportChunk(u) \/ Flush(u) \/ CancelImport(u) \/ FinishImport(u)
           \/ Age(u)
    \/ \E gone \in SUBSET Stale : RefuseImport(gone)
    \/ SaveImports \/ KillImports

ImportSpec == ImportInit /\ [][ImportNext]_importVars

-----------------------------------------------------------------------------
\* An archive that is listed has its file, with every chunk once and in order, although chunks
\* are answered for before they are written, answers get lost and chunks are sent again, saves
\* fail and the agent is killed between the renaming of the file and the save. Left out are
\* archives of which a chunk was sent again while the first was still unflushed.
ImportIsWhole ==
    \A u \in imports.listed :
        u \in cgp /\ (pieces[u] = [i \in 1..Pieces |-> i] \/ u \in repeated)
=============================================================================
