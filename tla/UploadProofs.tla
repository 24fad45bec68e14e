---------------------------- MODULE UploadProofs ----------------------------
(* Proofs about uploads in chunks: the file manager, with its editor, and the import of an        *)
(* archive, for every number of chunks, requests and faults.                                      *)
EXTENDS Workspace, Import, TLAPS

\* The first k chunks, each once and in order.
UpTo(k) == [i \in 1..k |-> i]

LEMMA UpToIs ==
    ASSUME NEW k \in Nat
    PROVE  /\ UpTo(k) \in Seq(Nat) /\ Len(UpTo(k)) = k /\ \A i \in 1..k : UpTo(k)[i] = i
           /\ UpTo(k + 1) = Append(UpTo(k), k + 1)
<1>1. UpTo(k) \in Seq(Nat) /\ Len(UpTo(k)) = k /\ \A i \in 1..k : UpTo(k)[i] = i
  BY DEF UpTo
<1>2. UpTo(k + 1) = Append(UpTo(k), k + 1)
  BY DEF UpTo
<1> QED
  BY <1>1, <1>2

-----------------------------------------------------------------------------
(* The import of an archive. *)

ArchivesTyped ==
    /\ pieces \in [Archives -> Seq(Nat)] /\ unflushed \in [Archives -> Seq(Nat)]
    /\ answered \in [Archives -> Nat] /\ pressing.answer \in Nat

\* What an archive holds, and what is on the way to its file.
InOrder ==
    \A u \in Archives \ repeated :
        /\ Len(pieces[u]) <= Pieces /\ pieces[u] = UpTo(Len(pieces[u]))
        /\ unflushed[u] # <<>> =>
               unflushed[u] = <<Len(pieces[u]) + 1>> /\ Len(pieces[u]) < Pieces

\* In memory and on file, so that a restart of the agent lists nothing else.
ListedIsThere ==
    \A u \in Archives \cap (imports.listed \cup savedImports.listed) :
        u \in cgp /\ (Len(pieces[u]) = Pieces \/ u \in repeated)

\* Nothing but archives is listed.
ListedIsArchive == imports.listed \cup savedImports.listed \subseteq Archives

ImportIInv == ArchivesTyped /\ InOrder /\ ListedIsThere /\ ListedIsArchive

LEMMA ImportInitially == ImportInit => ImportIInv
<1> SUFFICES ASSUME ImportInit PROVE ImportIInv
  OBVIOUS
<1>1. pieces = [u \in Archives |-> <<>>] /\ unflushed = [u \in Archives |-> <<>>]
      /\ answered = [u \in Archives |-> 0] /\ pressing.answer = 0
      /\ imports.listed = {} /\ savedImports.listed = {}
  BY DEF ImportInit, NoPress
<1>2. ArchivesTyped /\ ListedIsThere /\ ListedIsArchive
  BY <1>1 DEF ArchivesTyped, ListedIsThere, ListedIsArchive
<1>3. UpTo(0) = <<>>
  BY DEF UpTo
<1>4. InOrder
  BY <1>1, <1>3, ImportAssumption DEF InOrder
<1> QED
  BY <1>2, <1>4 DEF ImportIInv

\* A step that touches no file of an upload and lists nothing new.
LEMMA FilesAlone ==
    ASSUME ImportIInv, UNCHANGED <<pieces, repeated>>, cgp \subseteq cgp',
           answered' \in [Archives -> Nat], pressing'.answer \in Nat,
           unflushed' \in [Archives -> Seq(Nat)],
           \A u \in Archives : unflushed'[u] \in {unflushed[u], <<>>},
           imports'.listed \subseteq imports.listed \cup savedImports.listed,
           savedImports'.listed \subseteq imports.listed \cup savedImports.listed
    PROVE  ImportIInv'
<1> USE DEF ImportIInv
<1>1. ArchivesTyped'
  BY DEF ArchivesTyped
<1>2. InOrder'
  BY DEF InOrder
<1>3. ListedIsThere' /\ ListedIsArchive'
  BY DEF ListedIsThere, ListedIsArchive
<1> QED
  BY <1>1, <1>2, <1>3

LEMMA AppendStep == ASSUME ImportIInv, NEW u \in Archives, ImportChunk(u) PROVE ImportIInv'
<1> USE DEF ImportIInv
<1>1. /\ Len(pieces[u]) = answered[u] /\ answered[u] < Pieces
      /\ unflushed' = [unflushed EXCEPT ![u] = Append(unflushed[u], answered[u] + 1)]
      /\ repeated' = IF unflushed[u] # <<>> THEN repeated \cup {u} ELSE repeated
      /\ UNCHANGED <<pieces, answered, cgp, imports, savedImports>>
  BY DEF ImportChunk, Appends
<1>2. pressing'.answer = answered[u] + 1
  BY DEF ImportChunk, Appends, Presses
<1>3. /\ answered[u] \in Nat /\ unflushed[u] \in Seq(Nat)
      /\ \A v \in Archives : v # u => unflushed'[v] = unflushed[v]
      /\ unflushed'[u] = Append(unflushed[u], answered[u] + 1)
  BY <1>1 DEF ArchivesTyped
<1>4. ArchivesTyped'
  BY <1>1, <1>2, <1>3 DEF ArchivesTyped
<1>5. InOrder'
  <2> SUFFICES ASSUME NEW v \in Archives \ repeated'
               PROVE  /\ Len(pieces[v]) <= Pieces /\ pieces[v] = UpTo(Len(pieces[v]))
                      /\ unflushed'[v] # <<>> =>
                            unflushed'[v] = <<Len(pieces[v]) + 1>> /\ Len(pieces[v]) < Pieces
    BY <1>1 DEF InOrder
  <2>1. v \notin repeated
    BY <1>1
  <2>2. CASE v # u
    BY <1>3, <2>1, <2>2 DEF InOrder
  <2>3. CASE v = u
    <3>1. unflushed[u] = <<>>
      BY <1>1, <2>3
    <3>2. unflushed'[u] = <<answered[u] + 1>>
      BY <1>3, <3>1
    <3> QED
      BY <1>1, <2>1, <2>3, <3>2 DEF InOrder
  <2> QED
    BY <2>2, <2>3
<1>6. ListedIsThere' /\ ListedIsArchive'
  BY <1>1 DEF ListedIsThere, ListedIsArchive
<1> QED
  BY <1>4, <1>5, <1>6

LEMMA FlushStep == ASSUME ImportIInv, NEW u \in Archives, Flush(u) PROVE ImportIInv'
<1> USE DEF ImportIInv
<1>1. PICK i \in DOMAIN unflushed[u] :
          /\ pieces' = [pieces EXCEPT ![u] = Append(pieces[u], unflushed[u][i])]
          /\ unflushed' = [unflushed EXCEPT ![u] = RemoveAt(unflushed[u], i)]
          /\ UNCHANGED <<imports, savedImports, cgp, answered, pressing, repeated>>
  BY DEF Flush
<1>2. /\ pieces[u] \in Seq(Nat) /\ unflushed[u] \in Seq(Nat) /\ unflushed[u][i] \in Nat
      /\ i \in 1..Len(unflushed[u]) /\ Len(unflushed[u]) \in Nat /\ Len(pieces[u]) \in Nat
  BY <1>1 DEF ArchivesTyped
<1>3. RemoveAt(unflushed[u], i) \in Seq(Nat)
  <2>1. SubSeq(unflushed[u], 1, i - 1) \in Seq(Nat)
    BY <1>2
  <2>2. SubSeq(unflushed[u], i + 1, Len(unflushed[u])) \in Seq(Nat)
    BY <1>2
  <2> QED
    BY <2>1, <2>2 DEF RemoveAt
<1>4. Append(pieces[u], unflushed[u][i]) \in Seq(Nat)
  BY <1>2
<1>5. ArchivesTyped'
  BY <1>1, <1>3, <1>4 DEF ArchivesTyped
<1>6. /\ pieces'[u] = Append(pieces[u], unflushed[u][i])
      /\ unflushed'[u] = RemoveAt(unflushed[u], i)
      /\ \A v \in Archives : v # u => pieces'[v] = pieces[v] /\ unflushed'[v] = unflushed[v]
  BY <1>1 DEF ArchivesTyped
<1>7. CASE u \in repeated
  BY <1>1, <1>5, <1>6, <1>7 DEF InOrder, ListedIsThere, ListedIsArchive
<1>8. CASE u \notin repeated
  <2>1. unflushed[u] = <<Len(pieces[u]) + 1>> /\ Len(pieces[u]) < Pieces
        /\ pieces[u] = UpTo(Len(pieces[u]))
    BY <1>2, <1>8 DEF InOrder
  <2>2. i = 1 /\ unflushed[u][i] = Len(pieces[u]) + 1 /\ Len(unflushed[u]) = 1
    BY <1>2, <2>1
  <2>3. RemoveAt(unflushed[u], i) = <<>>
    <3>1. SubSeq(unflushed[u], 1, i - 1) = <<>> /\ SubSeq(unflushed[u], i + 1, Len(unflushed[u])) = <<>>
      BY <1>2, <2>2
    <3> QED
      BY <3>1 DEF RemoveAt
  <2>4. pieces'[u] = UpTo(Len(pieces[u]) + 1) /\ Len(pieces'[u]) = Len(pieces[u]) + 1
    <3> PICK k \in Nat : k = Len(pieces[u])
      BY <1>2
    <3>1. pieces'[u] = Append(UpTo(k), k + 1)
      BY <1>6, <2>1, <2>2
    <3>2. pieces'[u] = UpTo(k + 1)
      BY <3>1, UpToIs
    <3>3. Len(UpTo(k + 1)) = k + 1
      <4>1. k + 1 \in Nat
        OBVIOUS
      <4> HIDE DEF UpTo
      <4> QED
        BY <4>1, UpToIs
    <3> QED
      BY <3>2, <3>3
  <2>5. InOrder'
    <3> SUFFICES ASSUME NEW v \in Archives \ repeated
                 PROVE  /\ Len(pieces'[v]) <= Pieces /\ pieces'[v] = UpTo(Len(pieces'[v]))
                        /\ unflushed'[v] # <<>> =>
                              unflushed'[v] = <<Len(pieces'[v]) + 1>> /\ Len(pieces'[v]) < Pieces
      BY <1>1 DEF InOrder
    <3>1. CASE v # u
      BY <1>6, <3>1 DEF InOrder
    <3>2. CASE v = u
      BY <1>2, <1>6, <2>1, <2>3, <2>4, <3>2, ImportAssumption
    <3> QED
      BY <3>1, <3>2
  <2>6. u \notin imports.listed \cup savedImports.listed
    BY <1>2, <1>8, <2>1, ImportAssumption DEF ListedIsThere
  <2>7. ListedIsThere' /\ ListedIsArchive'
    BY <1>1, <1>6, <2>6 DEF ListedIsThere, ListedIsArchive
  <2> QED
    BY <1>5, <2>5, <2>7
<1> QED
  BY <1>7, <1>8

LEMMA FinishImportStep == ASSUME ImportIInv, NEW u \in Archives, FinishImport(u) PROVE ImportIInv'
<1> USE DEF ImportIInv
<1>1. /\ Len(pieces[u]) = Pieces /\ cgp' = cgp \cup {u}
      /\ imports'.listed = imports.listed \cup {u}
      /\ UNCHANGED <<savedImports, pieces, unflushed, answered, repeated>>
  BY DEF FinishImport
<1>2. pressing'.answer = 0
  BY DEF FinishImport, Presses
<1>3. ArchivesTyped' /\ InOrder'
  BY <1>1, <1>2 DEF ArchivesTyped, InOrder
<1>4. ListedIsThere' /\ ListedIsArchive'
  BY <1>1 DEF ListedIsThere, ListedIsArchive
<1> QED
  BY <1>3, <1>4

LEMMA SaveImportsStep == ASSUME ImportIInv, SaveImports PROVE ImportIInv'
<1>1. /\ pressing' = NoPress /\ pressing'.answer = 0
      /\ savedImports' \in {savedImports, imports}
      /\ UNCHANGED <<imports, cgp, pieces, unflushed, repeated>>
  BY DEF SaveImports, NoPress
<1>2. answered' \in [Archives -> Nat]
  <2>1. answered \in [Archives -> Nat] /\ pressing.answer \in Nat
    BY DEF ImportIInv, ArchivesTyped
  <2> QED
    BY <2>1 DEF SaveImports
<1>3. savedImports'.listed \subseteq imports.listed \cup savedImports.listed
  BY <1>1
<1>4. unflushed' \in [Archives -> Seq(Nat)]
  BY <1>1 DEF ImportIInv, ArchivesTyped
<1> QED
  BY <1>1, <1>2, <1>3, <1>4, FilesAlone

LEMMA OtherImportStep ==
    ASSUME ImportIInv,
           \/ \E u \in Archives : BeginImport(u) \/ CancelImport(u) \/ Age(u)
           \/ \E gone \in SUBSET Stale : RefuseImport(gone)
           \/ KillImports \/ UNCHANGED importVars
    PROVE  ImportIInv'
<1>1. ArchivesTyped
  BY DEF ImportIInv
<1>2. CASE \E u \in Archives : BeginImport(u) \/ CancelImport(u)
  <2>1. pressing'.answer = 0
    BY <1>2 DEF BeginImport, CancelImport, Presses
  <2>2. /\ imports'.listed = imports.listed
        /\ UNCHANGED <<savedImports, cgp, pieces, unflushed, answered, repeated>>
    <3>1. CASE \E u \in Archives : BeginImport(u)
      <4>1. imports' = [imports EXCEPT !.open = imports'.open]
        BY <3>1 DEF BeginImport
      <4> QED
        BY <3>1, <4>1 DEF BeginImport
    <3>2. CASE \E u \in Archives : CancelImport(u)
      BY <3>2 DEF CancelImport
    <3> QED
      BY <1>2, <3>1, <3>2
  <2>3. answered' \in [Archives -> Nat] /\ unflushed' \in [Archives -> Seq(Nat)]
    BY <1>1, <2>2 DEF ArchivesTyped
  <2> QED
    BY <2>1, <2>2, <2>3, FilesAlone
<1>5. CASE \E gone \in SUBSET Stale : RefuseImport(gone)
  <2> PICK gone \in SUBSET Stale : RefuseImport(gone)
    BY <1>5
  <2>1. pressing'.answer = 0
    BY DEF RefuseImport, Presses
  <2>2. imports' = [imports EXCEPT !.open = imports'.open]
    BY DEF RefuseImport
  <2>3. /\ imports'.listed = imports.listed
        /\ UNCHANGED <<savedImports, cgp, pieces, unflushed, answered, repeated>>
    BY <2>2 DEF RefuseImport
  <2>4. answered' \in [Archives -> Nat] /\ unflushed' \in [Archives -> Seq(Nat)]
    BY <1>1, <2>3 DEF ArchivesTyped
  <2> QED
    BY <2>1, <2>3, <2>4, FilesAlone
<1>3. CASE (\E u \in Archives : Age(u)) \/ UNCHANGED importVars
  <2>1. UNCHANGED <<imports, savedImports, cgp, pieces, unflushed, answered, pressing, repeated>>
    BY <1>3 DEF Age, importVars
  <2>2. /\ answered' \in [Archives -> Nat] /\ unflushed' \in [Archives -> Seq(Nat)]
        /\ pressing'.answer \in Nat
    BY <1>1, <2>1 DEF ArchivesTyped
  <2> QED
    BY <2>1, <2>2, FilesAlone
<1>4. CASE KillImports
  <2>1. /\ imports' = savedImports /\ pressing' = NoPress
        /\ unflushed' = [u \in Archives |-> <<>>]
        /\ UNCHANGED <<savedImports, cgp, pieces, answered, repeated>>
    BY <1>4 DEF KillImports
  <2>2. /\ answered' \in [Archives -> Nat] /\ unflushed' \in [Archives -> Seq(Nat)]
        /\ pressing'.answer \in Nat
    BY <1>1, <2>1 DEF ArchivesTyped, NoPress
  <2> QED
    BY <2>1, <2>2, FilesAlone
<1> QED
  BY <1>2, <1>3, <1>4, <1>5

LEMMA ImportInductive == ImportIInv /\ [ImportNext]_importVars => ImportIInv'
BY AppendStep, FlushStep, FinishImportStep, SaveImportsStep, OtherImportStep DEF ImportNext

\* The inductive invariant of the import: what an upload holds and what is on the way to its file,
\* unless a chunk overtook its repetition, and that both registries list complete archives only.
THEOREM ImportAlways == ImportSpec => []ImportIInv
BY ImportInitially, ImportInductive, PTL DEF ImportSpec

\* A listed archive has its file with every chunk once and in order, through lost answers,
\* repeated chunks, failed saves and restarts, unless a chunk was repeated before it was written.
THEOREM ImportsAreWhole == ImportSpec => []ImportIsWhole
<1>1. ImportIInv => ImportIsWhole
  <2> SUFFICES ASSUME ImportIInv, NEW u \in imports.listed
               PROVE  u \in cgp /\ (pieces[u] = [i \in 1..Pieces |-> i] \/ u \in repeated)
    BY DEF ImportIsWhole
  <2>1. u \in Archives
    BY DEF ImportIInv, ListedIsArchive
  <2> QED
    BY <2>1 DEF ImportIInv, ListedIsThere, InOrder, UpTo
<1> QED
  BY <1>1, ImportAlways, PTL

-----------------------------------------------------------------------------
(* The file manager. *)

Block == Edits \cup Nat \cup {Cut}
Help == [op : {"none", "chunk", "finish", "save"},
         at : {"idle", "check", "seek", "write", "answer", "look", "rename", "trim"},
         path : Paths \cup {NoFile}, file : Files \cup {NoFile}, place : Nat, over : BOOLEAN,
         text : Block \cup {NoFile}, saw : Seq(Block), raced : BOOLEAN]

FilesTyped ==
    /\ entry \in [Paths -> Files \cup {NoFile}]
    /\ content \in [Files -> Seq(Block)]
    /\ DOMAIN client \subseteq Uploads
    /\ client \in [DOMAIN client -> [next : Nat, waits : Helpers \cup {NoFile}]]
    /\ helper \in [Helpers -> Help]

\* What was not made yet is empty and nowhere.
Made ==
    /\ DOMAIN client \subseteq made
    /\ \A p \in Paths : entry[p] \in made \cup {NoFile}
    /\ \A h \in Helpers : helper[h].file \in made \cup {NoFile}
    /\ \A f \in Files \ made : content[f] = <<>>

\* What a request is about.
About(r) ==
    /\ r.op = "none" => r.file = NoFile
    /\ r.op = "chunk" => /\ r.file \in DOMAIN client /\ r.at \in {"check", "seek", "write", "answer"}
                         /\ r.at \in {"write", "answer"} => r.text \in Nat
    /\ r.op = "finish" =>
           r.file \in DOMAIN client /\ r.at \in {"look", "rename"} /\ r.path \in Paths
    /\ r.op = "save" => /\ r.text \in Edits
                        /\ \/ r.at = "check" /\ r.file = NoFile /\ r.path \in Paths
                           \/ r.at \in {"write", "trim"} /\ r.file \in Files

Requests == \A h \in Helpers : About(helper[h])

\* A client waits for the request that carries its chunk.
Waiting ==
    \A f \in DOMAIN client :
        client[f].waits # NoFile =>
            helper[client[f].waits].op = "chunk" /\ helper[client[f].waits].file = f

Plain(f, k) == content[f] = UpTo(k)
Edited(f) == content[f] # <<>> /\ content[f][1] \in Edits

\* What an upload holds: what its client has answers for, perhaps a chunk more, perhaps a part of
\* one, which no later chunk is appended to; or it was edited after it got its name.
Holds(f) ==
    \/ \E k \in client[f].next..Chunks : Plain(f, k)
    \/ \E k \in client[f].next..(Chunks - 1) : content[f] = Append(UpTo(k), Cut)
    \/ client[f].next = Chunks /\ Edited(f)

\* r is what the request h with a chunk of f is, if only one is at work.
Carries(h, r, f) ==
    LET n == client[f].next
    IN  /\ n < Chunks /\ client[f].waits \in {h, NoFile}
        /\ r.at \in {"check", "seek"} => r.place = n
        /\ r.at \in {"seek", "write"} => Plain(f, n)
        /\ r.at = "write" => r.place = n
        /\ r.at \in {"write", "answer"} => r.text = n + 1
        /\ r.at = "answer" => Plain(f, n + 1)

Chunking(h, f) == helper[h].op = "chunk" /\ helper[h].file = f

Chunked ==
    \A f \in DOMAIN client \ crowded :
        /\ Holds(f)
        /\ \A h \in Helpers : Chunking(h, f) =>
               Carries(h, helper[h], f) /\ \A g \in Helpers : Chunking(g, f) => g = h

\* An upload that has a name, or is to get one, is complete.
Sent(f) == f \in DOMAIN client => client[f].next = Chunks \/ f \in crowded

Complete ==
    /\ \A p \in Paths : Sent(entry[p])
    /\ \A h \in Helpers : helper[h].op \in {"finish", "save"} => Sent(helper[h].file)

\* A save that is about to write is of what its editor saw, unless another request came first.
Saves(r) ==
    r.op = "save" =>
        /\ r.at = "write" /\ r.file \notin crowded => r.raced \/ content[r.file] = r.saw
        /\ r.at = "trim" => content[r.file] # <<>>
        /\ r.at = "trim" /\ r.file \notin crowded => Edited(r.file)

Saving == \A h \in Helpers : Saves(helper[h])

WsIInv == FilesTyped /\ Made /\ Requests /\ Waiting /\ Chunked /\ Complete /\ Saving

LEMMA NoHelpIs ==
    /\ NoHelp \in Help /\ NoHelp.op = "none" /\ NoHelp.at = "idle" /\ NoHelp.file = NoFile
    /\ About(NoHelp) /\ Saves(NoHelp)
<1>1. NoHelp.over \in BOOLEAN /\ NoHelp.raced \in BOOLEAN
  BY DEF NoHelp
<1>2. /\ NoHelp.op = "none" /\ NoHelp.at = "idle" /\ NoHelp.file = NoFile /\ NoHelp.path = NoFile
      /\ NoHelp.place = 0 /\ NoHelp.text = NoFile
  BY DEF NoHelp
<1>3. NoHelp.saw \in Seq(Block)
  BY DEF NoHelp
<1>4. NoHelp \in Help
  BY <1>1, <1>2, <1>3 DEF NoHelp, Help
<1> QED
  BY <1>2, <1>4 DEF About, Saves

LEMMA WsInitially == WsInit => WsIInv
<1> SUFFICES ASSUME WsInit PROVE WsIInv
  OBVIOUS
<1>1. /\ entry = [p \in Paths |-> NoFile] /\ content = [f \in Files |-> <<>>]
      /\ DOMAIN client = {} /\ helper = [h \in Helpers |-> NoHelp]
      /\ client \in [{} -> [next : Nat, waits : Helpers \cup {NoFile}]]
  BY DEF WsInit
<1>2. \A h \in Helpers : helper[h] = NoHelp
  BY <1>1
<1>3. FilesTyped
  BY <1>1, NoHelpIs DEF FilesTyped
<1>4. Made /\ Requests /\ Complete /\ Saving
  BY <1>1, <1>2, NoHelpIs DEF Made, Requests, About, Complete, Sent, Saving, Saves
<1>5. Waiting /\ Chunked
  BY <1>1 DEF Waiting, Chunked
<1> QED
  BY <1>3, <1>4, <1>5 DEF WsIInv

LEMMA HelperBecomes ==
    ASSUME helper \in [Helpers -> Help], NEW h \in Helpers, NEW r \in Help,
           helper' = [helper EXCEPT ![h] = r]
    PROVE  /\ helper' \in [Helpers -> Help] /\ helper'[h] = r
           /\ \A g \in Helpers \ {h} : helper'[g] = helper[g]
OBVIOUS

\* A step of request h that changes no file, and perhaps gives a complete one its name.
LEMMA HelperStep ==
    ASSUME WsIInv, NEW h \in Helpers, NEW r \in Help, helper' = [helper EXCEPT ![h] = r],
           UNCHANGED <<content, client, crowded, made>>,
           entry' \in [Paths -> Files \cup {NoFile}],
           \A p \in Paths : Sent(entry'[p]) /\ entry'[p] \in made \cup {NoFile},
           About(r), Saves(r), r.file \in made \cup {NoFile},
           (r.op = "chunk") <=> (helper[h].op = "chunk"),
           r.op = "chunk" => /\ r.file = helper[h].file
                             /\ r.file \notin crowded => Carries(h, r, r.file),
           r.op \in {"finish", "save"} => Sent(r.file)
    PROVE  WsIInv'
<1> USE DEF WsIInv
<1>1. /\ helper' \in [Helpers -> Help] /\ helper'[h] = r
      /\ \A g \in Helpers \ {h} : helper'[g] = helper[g]
  BY HelperBecomes DEF FilesTyped
<1>2. FilesTyped'
  BY <1>1 DEF FilesTyped
<1>3. Made'
  BY <1>1 DEF Made
<1>4. Requests'
  BY <1>1 DEF Requests, About
<1>5. Waiting'
  <2> SUFFICES ASSUME NEW f \in DOMAIN client, client[f].waits # NoFile
               PROVE  helper'[client[f].waits].op = "chunk" /\ helper'[client[f].waits].file = f
    BY DEF Waiting
  <2>1. /\ client[f].waits \in Helpers
        /\ helper[client[f].waits].op = "chunk" /\ helper[client[f].waits].file = f
    BY DEF Waiting, FilesTyped
  <2> QED
    BY <1>1, <2>1
<1>6. \A g \in Helpers : \A f : Chunking(g, f)' <=> Chunking(g, f)
  BY <1>1 DEF Chunking
<1>7. Chunked'
  <2> SUFFICES ASSUME NEW f \in DOMAIN client \ crowded
               PROVE  /\ Holds(f)'
                      /\ \A g \in Helpers : Chunking(g, f)' =>
                             /\ Carries(g, helper[g], f)'
                             /\ \A k \in Helpers : Chunking(k, f)' => k = g
    BY DEF Chunked
  <2>1. Holds(f)'
    BY DEF Chunked, Holds, Plain, Edited
  <2>2. ASSUME NEW g \in Helpers, Chunking(g, f)
        PROVE  Carries(g, helper[g], f)'
    <3>1. CASE g = h
      BY <1>1, <2>2, <3>1 DEF Carries, Chunking, Plain
    <3>2. CASE g # h
      BY <1>1, <2>2, <3>2 DEF Chunked, Carries, Plain
    <3> QED
      BY <3>1, <3>2
  <2> QED
    BY <1>6, <2>1, <2>2 DEF Chunked
<1>8. Complete'
  BY <1>1 DEF Complete, Sent
<1>9. Saving'
  BY <1>1 DEF Saving, Saves, Edited
<1> QED
  BY <1>2, <1>3, <1>4, <1>5, <1>7, <1>8, <1>9

\* Names that are given, changed or taken, by nobody's request.
LEMMA EntryStep ==
    ASSUME WsIInv, UNCHANGED <<content, client, crowded, helper>>,
           entry' \in [Paths -> Files \cup {NoFile}], made \subseteq made',
           \A p \in Paths : Sent(entry'[p]) /\ entry'[p] \in made' \cup {NoFile}
    PROVE  WsIInv'
<1> USE DEF WsIInv
<1>1. FilesTyped' /\ Made' /\ Requests' /\ Waiting'
  BY DEF FilesTyped, Made, Requests, About, Waiting
<1>2. Chunked'
  BY DEF Chunked, Holds, Plain, Edited, Chunking, Carries
<1>3. Complete'
  BY DEF Complete, Sent
<1>4. Saving'
  BY DEF Saving, Saves, Edited
<1> QED
  BY <1>1, <1>2, <1>3, <1>4

\* h is done, and its client, if it still waits, has next chunks.
LEMMA Released ==
    ASSUME FilesTyped, NEW h \in Helpers, NEW next \in Nat, Answered(h, next)
    PROVE  /\ DOMAIN client' = DOMAIN client
           /\ client' \in [DOMAIN client' -> [next : Nat, waits : Helpers \cup {NoFile}]]
           /\ \A f \in DOMAIN client :
                 IF client[f].waits = h
                 THEN client'[f].next = next /\ client'[f].waits = NoFile
                 ELSE client'[f] = client[f]
<1>1. client' = [f \in DOMAIN client |-> IF client[f].waits = h
                                         THEN [next |-> next, waits |-> NoFile] ELSE client[f]]
  BY DEF Answered
<1>2. client \in [DOMAIN client -> [next : Nat, waits : Helpers \cup {NoFile}]]
  BY DEF FilesTyped
<1> QED
  BY <1>1, <1>2

LEMMA ReleaseStep ==
    ASSUME WsIInv, NEW h \in Helpers, NEW next \in Nat, Answered(h, next),
           helper' = [helper EXCEPT ![h] = NoHelp],
           UNCHANGED <<entry, content, crowded, made>>,
           \A f \in DOMAIN client \ crowded : client[f].waits = h =>
               next = client[f].next \/ (next = client[f].next + 1 /\ Plain(f, next))
    PROVE  WsIInv'
<1> USE DEF WsIInv
<1>1. /\ helper' \in [Helpers -> Help] /\ helper'[h] = NoHelp
      /\ \A g \in Helpers \ {h} : helper'[g] = helper[g]
  BY HelperBecomes, NoHelpIs DEF FilesTyped
<1>2. /\ DOMAIN client' = DOMAIN client
      /\ client' \in [DOMAIN client' -> [next : Nat, waits : Helpers \cup {NoFile}]]
      /\ \A f \in DOMAIN client :
            IF client[f].waits = h THEN client'[f].next = next /\ client'[f].waits = NoFile
            ELSE client'[f] = client[f]
  BY Released
<1>3. FilesTyped'
  BY <1>1, <1>2 DEF FilesTyped
<1>4. Made'
  BY <1>1, <1>2, NoHelpIs DEF Made
<1>5. Requests'
  BY <1>1, <1>2, NoHelpIs DEF Requests, About
<1>6. Waiting'
  <2> SUFFICES ASSUME NEW f \in DOMAIN client, client'[f].waits # NoFile
               PROVE  helper'[client'[f].waits].op = "chunk" /\ helper'[client'[f].waits].file = f
    BY <1>2 DEF Waiting
  <2>1. client'[f] = client[f] /\ client[f].waits # h
    BY <1>2
  <2>2. client[f].waits \in Helpers
    BY <2>1 DEF FilesTyped
  <2> QED
    BY <1>1, <2>1, <2>2 DEF Waiting
<1>7. ASSUME NEW f \in DOMAIN client, client[f].waits = h
      PROVE  Chunking(h, f)
  <2>1. h # NoFile
    BY WorkspaceAssumption
  <2> QED
    BY <1>7, <2>1 DEF Waiting, Chunking
<1>8. \A g \in Helpers, f \in DOMAIN client : Chunking(g, f)' => g # h /\ Chunking(g, f)
  BY <1>1, NoHelpIs DEF Chunking
<1>9. Chunked'
  <2> SUFFICES ASSUME NEW f \in DOMAIN client \ crowded
               PROVE  /\ Holds(f)'
                      /\ \A g \in Helpers : Chunking(g, f)' =>
                             /\ Carries(g, helper[g], f)'
                             /\ \A k \in Helpers : Chunking(k, f)' => k = g
    BY <1>2 DEF Chunked
  <2>1. CASE client[f].waits = h
    <3>1. client[f].next < Chunks /\ \A g \in Helpers : Chunking(g, f) => g = h
      BY <1>7, <2>1 DEF Chunked, Carries
    <3>2. client'[f].next = next /\ client[f].next \in Nat /\ Holds(f)
      BY <1>2, <2>1 DEF Chunked, FilesTyped
    <3>3. CASE next = client[f].next
      BY <1>8, <3>1, <3>2, <3>3 DEF Holds, Plain, Edited
    <3>4. CASE next = client[f].next + 1 /\ Plain(f, next)
      <4>1. next \in next..Chunks
        BY <3>1, <3>2, <3>4, WorkspaceAssumption
      <4> QED
        BY <1>8, <3>1, <3>2, <3>4, <4>1 DEF Holds, Plain
    <3> QED
      BY <2>1, <3>3, <3>4
  <2>2. CASE client[f].waits # h
    <3>1. client'[f] = client[f]
      BY <1>2, <2>2
    <3>2. Holds(f)'
      BY <3>1 DEF Chunked, Holds, Plain, Edited
    <3>3. \A g \in Helpers : Chunking(g, f)' => Carries(g, helper[g], f)'
      BY <1>1, <1>8, <3>1 DEF Chunked, Carries, Plain
    <3> QED
      BY <1>8, <3>2, <3>3 DEF Chunked
  <2> QED
    BY <2>1, <2>2
<1>10. \A f : Sent(f) => Sent(f)'
  <2> SUFFICES ASSUME NEW f \in DOMAIN client, client[f].next = Chunks, f \notin crowded
               PROVE  client'[f].next = Chunks
    BY <1>2 DEF Sent
  <2>1. client[f].waits # h
    BY <1>7, WorkspaceAssumption DEF Chunked, Carries
  <2> QED
    BY <1>2, <2>1
<1>11. Complete'
  <2>1. \A g \in Helpers : helper'[g].op \in {"finish", "save"} => helper'[g] = helper[g]
    BY <1>1, NoHelpIs
  <2>2. \A p \in Paths : Sent(entry[p])
    BY DEF Complete
  <2>3. \A g \in Helpers : helper'[g].op \in {"finish", "save"} => Sent(helper[g].file)
    BY <2>1 DEF Complete
  <2> QED
    BY <1>2, <1>10, <2>1, <2>2, <2>3 DEF Complete, Sent
<1>12. Saving'
  BY <1>1, NoHelpIs DEF Saving, Saves, Edited
<1> QED
  BY <1>3, <1>4, <1>5, <1>6, <1>9, <1>11, <1>12

-----------------------------------------------------------------------------
(* Uploads, step by step. *)

LEMMA ChunkCheckStep == ASSUME WsIInv, NEW h \in Helpers, ChunkCheck(h) PROVE WsIInv'
<1> USE DEF WsIInv
<1>1. /\ helper[h].op = "chunk" /\ helper[h].at = "check" /\ helper[h].file \in DOMAIN client
      /\ helper[h] \in Help
      /\ UNCHANGED <<entry, content, crowded, made>>
  BY DEF ChunkCheck, Doing, Requests, About, FilesTyped
<1>2. CASE Len(content[helper[h].file]) = helper[h].place /\ Move(h, "seek") /\ UNCHANGED client
  <2> DEFINE r == [helper[h] EXCEPT !.at = "seek"]
             f == helper[h].file
  <2>1. /\ r \in Help /\ r.op = "chunk" /\ r.at = "seek" /\ r.file = f /\ r.place = helper[h].place
        /\ helper' = [helper EXCEPT ![h] = r]
    BY <1>1, <1>2 DEF Help, Move
  <2>2. About(r) /\ Saves(r)
    BY <1>1, <2>1 DEF About, Saves
  <2>3. ASSUME f \notin crowded PROVE Carries(h, r, f)
    <3>1. /\ Carries(h, helper[h], f) /\ Holds(f) /\ client[f].next \in Nat
          /\ content[f] \in Seq(Block)
      BY <1>1, <2>3, WorkspaceAssumption DEF Chunked, Chunking, FilesTyped
    <3>2. /\ client[f].next < Chunks /\ client[f].waits \in {h, NoFile}
          /\ r.place = client[f].next /\ Len(content[f]) = client[f].next
      BY <1>1, <1>2, <2>1, <3>1 DEF Carries
    <3>3. Plain(f, client[f].next)
      <4>1. ASSUME NEW k \in client[f].next..Chunks, Plain(f, k) PROVE k = client[f].next
        <5>1. k \in Nat /\ Len(UpTo(k)) = k
          BY <3>1, <4>1, WorkspaceAssumption, UpToIs
        <5> QED
          BY <3>2, <4>1, <5>1 DEF Plain
      <4>2. ASSUME NEW k \in client[f].next..(Chunks - 1), content[f] = Append(UpTo(k), Cut)
            PROVE  FALSE
        <5>0. k \in Nat /\ k >= client[f].next
          BY <3>1, <4>2, WorkspaceAssumption
        <5>1. Len(UpTo(k)) = k
          BY <5>0, UpToIs
        <5>2. Len(Append(UpTo(k), Cut)) = k + 1
          BY <5>0, <5>1 DEF UpTo
        <5> QED
          BY <3>1, <3>2, <4>2, <5>0, <5>2
      <4> QED
        BY <3>1, <3>2, <4>1, <4>2, WorkspaceAssumption DEF Holds
    <3> QED
      BY <2>1, <3>2, <3>3 DEF Carries
  <2> HIDE DEF r
  <2>4. r.file \in made \cup {NoFile}
    BY <2>1 DEF Made
  <2>5. /\ entry' \in [Paths -> Files \cup {NoFile}]
        /\ \A p \in Paths : Sent(entry'[p]) /\ entry'[p] \in made \cup {NoFile}
    BY <1>1 DEF FilesTyped, Complete, Made
  <2> QED
    BY <1>1, <1>2, <2>1, <2>2, <2>3, <2>4, <2>5, HelperStep
<1>3. CASE Fails(h)
  <2>1. helper[h].place \in Nat
    BY <1>1 DEF Help
  <2>2. ASSUME NEW f \in DOMAIN client \ crowded, client[f].waits = h
        PROVE  helper[h].place = client[f].next
    <3>1. Chunking(h, f)
      BY <2>2, WorkspaceAssumption DEF Waiting, Chunking
    <3> QED
      BY <1>1, <3>1 DEF Chunked, Carries
  <2> QED
    BY <1>1, <1>3, <2>1, <2>2, ReleaseStep DEF Fails
<1> QED
  BY <1>2, <1>3 DEF ChunkCheck

LEMMA ChunkSeekStep == ASSUME WsIInv, NEW h \in Helpers, ChunkSeek(h) PROVE WsIInv'
<1> USE DEF WsIInv
<1> DEFINE f == helper[h].file
           r == [helper[h] EXCEPT !.at = "write", !.text = helper[h].place + 1,
                                  !.place = Len(content[f])]
<1>1. /\ helper[h].op = "chunk" /\ helper[h].at = "seek" /\ f \in DOMAIN client /\ f \in Files
      /\ helper[h] \in Help /\ content[f] \in Seq(Block) /\ helper[h].place \in Nat
      /\ client[f].next \in Nat
  BY WorkspaceAssumption DEF ChunkSeek, Doing, Requests, About, FilesTyped, Help
<1>2. UNCHANGED <<entry, content, client, crowded, made>> /\ helper' = [helper EXCEPT ![h] = r]
  BY DEF ChunkSeek
<1>3. /\ r \in Help /\ r.op = "chunk" /\ r.at = "write" /\ r.file = f
      /\ r.text = helper[h].place + 1 /\ r.place = Len(content[f])
  <2>1. Len(content[f]) \in Nat /\ helper[h].place + 1 \in Block
    BY <1>1 DEF Block
  <2> QED
    BY <1>1, <2>1 DEF Help
<1>4. About(r) /\ Saves(r)
  BY <1>1, <1>3 DEF About, Saves
<1>5. ASSUME f \notin crowded PROVE Carries(h, r, f)
  <2>1. Carries(h, helper[h], f)
    BY <1>1, <1>5 DEF Chunked, Chunking
  <2>2. Len(content[f]) = client[f].next
    <3>1. content[f] = UpTo(client[f].next)
      BY <1>1, <2>1 DEF Carries, Plain
    <3> QED
      BY <1>1, <3>1, UpToIs
  <2> QED
    BY <1>1, <1>3, <2>1, <2>2 DEF Carries
<1> HIDE DEF r
<1>6. /\ r.file \in made \cup {NoFile} /\ entry' \in [Paths -> Files \cup {NoFile}]
      /\ \A p \in Paths : Sent(entry'[p]) /\ entry'[p] \in made \cup {NoFile}
  BY <1>2, <1>3 DEF FilesTyped, Complete, Made
<1> QED
  BY <1>1, <1>2, <1>3, <1>4, <1>5, <1>6, HelperStep

LEMMA ChunkAnswerStep == ASSUME WsIInv, NEW h \in Helpers, ChunkAnswer(h) PROVE WsIInv'
<1> USE DEF WsIInv
<1>1. /\ helper[h].op = "chunk" /\ helper[h].at = "answer" /\ helper[h].text \in Nat
      /\ helper' = [helper EXCEPT ![h] = NoHelp] /\ Answered(h, helper[h].text)
      /\ UNCHANGED <<entry, content, crowded, made>>
  BY DEF ChunkAnswer, Doing, Requests, About
<1>2. ASSUME NEW f \in DOMAIN client \ crowded, client[f].waits = h
      PROVE  helper[h].text = client[f].next + 1 /\ Plain(f, helper[h].text)
  <2>1. Chunking(h, f)
    BY <1>2, WorkspaceAssumption DEF Waiting, Chunking
  <2> QED
    BY <1>1, <2>1 DEF Chunked, Carries
<1> QED
  BY <1>1, <1>2, ReleaseStep

LEMMA FinishStep ==
    ASSUME WsIInv, NEW h \in Helpers, FinishLook(h) \/ FinishRename(h)
    PROVE  WsIInv'
<1> USE DEF WsIInv
<1>1. /\ helper[h].op = "finish" /\ helper[h].path \in Paths /\ Sent(helper[h].file)
      /\ helper[h].file \in Files /\ helper[h].file \in made /\ helper[h].file \in DOMAIN client
      /\ helper[h] \in Help
      /\ UNCHANGED <<content, client, crowded, made>>
  BY WorkspaceAssumption
  DEF FinishLook, FinishRename, Renamed, Doing, Requests, About, Complete, Made, FilesTyped
<1> DEFINE r == [helper[h] EXCEPT !.at = "rename"]
<1>2. r \in Help /\ r.op = "finish" /\ r.file = helper[h].file /\ r.path = helper[h].path
      /\ r.at = "rename"
  BY <1>1 DEF Help
<1>3. About(r) /\ Saves(r)
  BY <1>1, <1>2 DEF About, Saves
<1>4. /\ entry' \in [Paths -> Files \cup {NoFile}]
      /\ \A p \in Paths : Sent(entry'[p]) /\ entry'[p] \in made \cup {NoFile}
  <2>1. entry' \in {entry, [entry EXCEPT ![helper[h].path] = helper[h].file]}
    BY DEF FinishLook, FinishRename, Renamed
  <2>2. /\ entry \in [Paths -> Files \cup {NoFile}]
        /\ \A p \in Paths : Sent(entry[p]) /\ entry[p] \in made \cup {NoFile}
    BY DEF FilesTyped, Complete, Made
  <2> QED
    BY <1>1, <2>1, <2>2
<1>5. helper' = [helper EXCEPT ![h] = r] \/ helper' = [helper EXCEPT ![h] = NoHelp]
  BY DEF FinishLook, FinishRename, Renamed
<1> HIDE DEF r
<1>6. CASE helper' = [helper EXCEPT ![h] = r]
  BY <1>1, <1>2, <1>3, <1>4, <1>6, HelperStep
<1>7. CASE helper' = [helper EXCEPT ![h] = NoHelp]
  BY <1>1, <1>4, <1>7, NoHelpIs, HelperStep
<1> QED
  BY <1>5, <1>6, <1>7

LEMMA SendFinishStep ==
    ASSUME WsIInv, NEW h \in Helpers, NEW f \in Uploads, NEW p \in Paths, NEW over \in BOOLEAN,
           SendFinish(h, f, p, over)
    PROVE  WsIInv'
<1> USE DEF WsIInv
<1> DEFINE r == [NoHelp EXCEPT !.op = "finish", !.at = "look", !.file = f, !.path = p, !.over = over]
<1>1. /\ helper[h] = NoHelp /\ f \in DOMAIN client /\ client[f].next = Chunks /\ f \in Files
      /\ helper' = [helper EXCEPT ![h] = r]
      /\ UNCHANGED <<entry, content, client, crowded, made>>
  BY WorkspaceAssumption DEF SendFinish, Free
<1>2. r \in Help /\ r.op = "finish" /\ r.at = "look" /\ r.file = f /\ r.path = p
  BY <1>1, NoHelpIs DEF Help
<1>3. About(r) /\ Saves(r) /\ Sent(f) /\ f \in made
  BY <1>1, <1>2 DEF About, Saves, Sent, Made
<1> HIDE DEF r
<1>4. /\ entry' \in [Paths -> Files \cup {NoFile}]
      /\ \A q \in Paths : Sent(entry'[q]) /\ entry'[q] \in made \cup {NoFile}
  BY <1>1 DEF FilesTyped, Complete, Made
<1> QED
  BY <1>1, <1>2, <1>3, <1>4, NoHelpIs, HelperStep

LEMMA ReadFileStep ==
    ASSUME WsIInv, NEW h \in Helpers, NEW p \in Paths, NEW text \in Edits, ReadFile(h, p, text)
    PROVE  WsIInv'
<1> USE DEF WsIInv
<1> DEFINE r == [NoHelp EXCEPT !.op = "save", !.at = "check", !.path = p, !.text = text,
                               !.saw = content[entry[p]]]
<1>1. /\ helper[h] = NoHelp /\ entry[p] \in Files /\ content[entry[p]] \in Seq(Block)
      /\ helper' = [helper EXCEPT ![h] = r]
      /\ UNCHANGED <<entry, content, client, crowded, made>>
  BY DEF ReadFile, Free, FilesTyped
<1>2. /\ r \in Help /\ r.op = "save" /\ r.at = "check" /\ r.file = NoFile /\ r.path = p
      /\ r.text = text
  BY <1>1, NoHelpIs DEF Help, Block
<1>3. About(r) /\ Saves(r) /\ Sent(NoFile)
  <2>1. NoFile \notin DOMAIN client
    BY WorkspaceAssumption DEF FilesTyped
  <2> QED
    BY <1>2, <2>1 DEF About, Saves, Sent
<1> HIDE DEF r
<1>4. /\ entry' \in [Paths -> Files \cup {NoFile}]
      /\ \A q \in Paths : Sent(entry'[q]) /\ entry'[q] \in made \cup {NoFile}
  BY <1>1 DEF FilesTyped, Complete, Made
<1> QED
  BY <1>1, <1>2, <1>3, <1>4, NoHelpIs, HelperStep

LEMMA SaveCheckStep == ASSUME WsIInv, NEW h \in Helpers, SaveCheck(h) PROVE WsIInv'
<1> USE DEF WsIInv
<1> DEFINE f == entry[helper[h].path]
           r == [helper[h] EXCEPT !.at = "write", !.file = f]
<1>1. /\ helper[h].op = "save" /\ helper[h].at = "check" /\ helper[h].path \in Paths
      /\ helper[h].text \in Edits /\ helper[h] \in Help
      /\ UNCHANGED <<entry, content, client, crowded, made>>
  BY DEF SaveCheck, Doing, Requests, About, FilesTyped
<1>2. /\ entry' \in [Paths -> Files \cup {NoFile}]
      /\ \A q \in Paths : Sent(entry'[q]) /\ entry'[q] \in made \cup {NoFile}
  BY <1>1 DEF FilesTyped, Complete, Made
<1>3. CASE f # NoFile /\ content[f] = helper[h].saw /\ helper' = [helper EXCEPT ![h] = r]
  <2>1. f \in Files /\ f \in made /\ Sent(f)
    BY <1>1, <1>3 DEF FilesTyped, Made, Complete
  <2>2. /\ r \in Help /\ r.op = "save" /\ r.at = "write" /\ r.file = f /\ r.text = helper[h].text
        /\ r.saw = helper[h].saw
    BY <1>1, <2>1 DEF Help
  <2>3. About(r) /\ Saves(r)
    BY <1>1, <1>3, <2>1, <2>2 DEF About, Saves
  <2> HIDE DEF r
  <2> QED
    BY <1>1, <1>2, <1>3, <2>1, <2>2, <2>3, HelperStep
<1>4. CASE helper' = [helper EXCEPT ![h] = NoHelp]
  BY <1>1, <1>2, <1>4, NoHelpIs, HelperStep
<1> QED
  BY <1>3, <1>4 DEF SaveCheck

LEMMA UploadBeginStep == ASSUME WsIInv, NEW f \in Uploads, UploadBegin(f) PROVE WsIInv'
<1> USE DEF WsIInv
<1>1. /\ f \notin made /\ made' = made \cup {f} /\ f \in Files
      /\ client' = [g \in DOMAIN client \cup {f} |-> IF g = f THEN NoClient ELSE client[g]]
      /\ UNCHANGED <<entry, content, helper, crowded>>
  BY WorkspaceAssumption DEF UploadBegin
<1>2. NoClient.next = 0 /\ NoClient.waits = NoFile
      /\ NoClient \in [next : Nat, waits : Helpers \cup {NoFile}]
  BY DEF NoClient
<1>3. /\ f \notin DOMAIN client /\ content[f] = <<>> /\ f # NoFile
      /\ \A p \in Paths : entry[p] # f
      /\ \A h \in Helpers : helper[h].file # f
  BY <1>1, WorkspaceAssumption DEF Made
<1>4. /\ DOMAIN client' = DOMAIN client \cup {f}
      /\ client'[f] = NoClient /\ \A g \in DOMAIN client : client'[g] = client[g]
      /\ client' \in [DOMAIN client' -> [next : Nat, waits : Helpers \cup {NoFile}]]
  BY <1>1, <1>2, <1>3 DEF FilesTyped
<1>5. FilesTyped'
  BY <1>1, <1>4 DEF FilesTyped
<1>6. Made' /\ Requests'
  BY <1>1, <1>4 DEF Made, Requests, About
<1>7. Waiting'
  BY <1>1, <1>2, <1>4 DEF Waiting
<1>8. Holds(f)'
  <2>1. UpTo(0) = <<>> /\ 0 \in 0..Chunks
    BY WorkspaceAssumption DEF UpTo
  <2> QED
    BY <1>1, <1>2, <1>3, <1>4, <2>1 DEF Holds, Plain
<1>9. Chunked'
  <2> SUFFICES ASSUME NEW g \in (DOMAIN client \cup {f}) \ crowded
               PROVE  /\ Holds(g)'
                      /\ \A h \in Helpers : Chunking(h, g)' =>
                             /\ Carries(h, helper[h], g)'
                             /\ \A k \in Helpers : Chunking(k, g)' => k = h
    BY <1>1, <1>4 DEF Chunked
  <2>1. CASE g = f
    BY <1>1, <1>3, <1>8, <2>1 DEF Chunking
  <2>2. CASE g # f
    BY <1>1, <1>4, <2>2 DEF Chunked, Holds, Plain, Edited, Chunking, Carries
  <2> QED
    BY <2>1, <2>2
<1>10. Complete'
  BY <1>1, <1>3, <1>4 DEF Complete, Sent
<1>11. Saving'
  BY <1>1 DEF Saving, Saves, Edited
<1> QED
  BY <1>5, <1>6, <1>7, <1>9, <1>10, <1>11

LEMMA GiveUpStep == ASSUME WsIInv, NEW f \in Uploads, GiveUp(f) PROVE WsIInv'
<1> USE DEF WsIInv
<1>1. /\ f \in DOMAIN client /\ client' = [client EXCEPT ![f].waits = NoFile]
      /\ UNCHANGED <<entry, content, helper, crowded, made>>
  BY DEF GiveUp
<1>2. /\ DOMAIN client' = DOMAIN client
      /\ client'[f].next = client[f].next /\ client'[f].waits = NoFile
      /\ \A g \in DOMAIN client : g # f => client'[g] = client[g]
      /\ client' \in [DOMAIN client' -> [next : Nat, waits : Helpers \cup {NoFile}]]
  <2>1. client \in [DOMAIN client -> [next : Nat, waits : Helpers \cup {NoFile}]]
    BY DEF FilesTyped
  <2> QED
    BY <1>1, <2>1
<1>3. \A g \in DOMAIN client : client'[g].next = client[g].next
                               /\ client'[g].waits \in {client[g].waits, NoFile}
  BY <1>2
<1>4. FilesTyped' /\ Made' /\ Requests' /\ Waiting'
  BY <1>1, <1>2, <1>3 DEF FilesTyped, Made, Requests, About, Waiting
<1>5. Chunked'
  <2> SUFFICES ASSUME NEW g \in DOMAIN client \ crowded
               PROVE  /\ Holds(g)'
                      /\ \A h \in Helpers : Chunking(h, g)' =>
                             /\ Carries(h, helper[h], g)'
                             /\ \A k \in Helpers : Chunking(k, g)' => k = h
    BY <1>1, <1>2 DEF Chunked
  <2>1. Holds(g)'
    BY <1>1, <1>3 DEF Chunked, Holds, Plain, Edited
  <2> QED
    BY <1>1, <1>3, <2>1 DEF Chunked, Plain, Chunking, Carries
<1>6. Complete' /\ Saving'
  BY <1>1, <1>2, <1>3 DEF Complete, Sent, Saving, Saves, Edited
<1> QED
  BY <1>4, <1>5, <1>6

LEMMA SendChunkStep ==
    ASSUME WsIInv, NEW h \in Helpers, NEW f \in Uploads, SendChunk(h, f)
    PROVE  WsIInv'
<1> USE DEF WsIInv
<1> DEFINE r == [NoHelp EXCEPT !.op = "chunk", !.at = "check", !.file = f, !.place = client[f].next]
<1>1. /\ helper[h] = NoHelp /\ f \in DOMAIN client /\ client[f].waits = NoFile
      /\ client[f].next < Chunks /\ f \in Files /\ client[f].next \in Nat
      /\ client' = [client EXCEPT ![f].waits = h] /\ helper' = [helper EXCEPT ![h] = r]
      /\ UNCHANGED <<entry, content, made>>
  BY WorkspaceAssumption DEF SendChunk, Free, FilesTyped
<1>2. crowded' = IF \E g \in Helpers : Chunking(g, f) THEN crowded \cup {f} ELSE crowded
  BY DEF SendChunk, Chunking
<1>3. /\ r \in Help /\ r.op = "chunk" /\ r.at = "check" /\ r.file = f
      /\ r.place = client[f].next
  BY <1>1, NoHelpIs DEF Help
<1> HIDE DEF r
<1>4. /\ helper' \in [Helpers -> Help] /\ helper'[h] = r
      /\ \A g \in Helpers \ {h} : helper'[g] = helper[g]
  BY <1>1, <1>3, HelperBecomes DEF FilesTyped
<1>5. /\ DOMAIN client' = DOMAIN client
      /\ client'[f].next = client[f].next /\ client'[f].waits = h
      /\ \A g \in DOMAIN client : g # f => client'[g] = client[g]
      /\ client' \in [DOMAIN client' -> [next : Nat, waits : Helpers \cup {NoFile}]]
  <2>1. client \in [DOMAIN client -> [next : Nat, waits : Helpers \cup {NoFile}]]
    BY DEF FilesTyped
  <2> QED
    BY <1>1, <2>1
<1>6. \A g \in DOMAIN client : client'[g].next = client[g].next
  BY <1>5
<1>7. FilesTyped'
  BY <1>1, <1>4, <1>5 DEF FilesTyped
<1>8. Made' /\ Requests'
  BY <1>1, <1>3, <1>4, <1>5 DEF Made, Requests, About
<1>9. Waiting'
  <2> SUFFICES ASSUME NEW g \in DOMAIN client, client'[g].waits # NoFile
               PROVE  helper'[client'[g].waits].op = "chunk" /\ helper'[client'[g].waits].file = g
    BY <1>5 DEF Waiting
  <2>1. CASE g = f
    BY <1>3, <1>4, <1>5, <2>1
  <2>2. CASE g # f
    <3>1. /\ client[g].waits \in Helpers /\ client'[g].waits = client[g].waits
          /\ helper[client[g].waits].op = "chunk" /\ helper[client[g].waits].file = g
      BY <1>5, <2>2 DEF Waiting, FilesTyped
    <3> QED
      BY <1>1, <1>4, <3>1, NoHelpIs
  <2> QED
    BY <2>1, <2>2
<1>10. \A g \in Helpers : \A k : Chunking(g, k)' <=> Chunking(g, k) \/ (g = h /\ k = f)
  BY <1>1, <1>3, <1>4, NoHelpIs DEF Chunking
<1>11. Chunked'
  <2> SUFFICES ASSUME NEW g \in DOMAIN client \ crowded'
               PROVE  /\ Holds(g)'
                      /\ \A k \in Helpers : Chunking(k, g)' =>
                             /\ Carries(k, helper[k], g)'
                             /\ \A m \in Helpers : Chunking(m, g)' => m = k
    BY <1>5 DEF Chunked
  <2>1. g \notin crowded
    BY <1>2
  <2>2. Holds(g)'
    BY <1>1, <1>6, <2>1 DEF Chunked, Holds, Plain, Edited
  <2>3. CASE g = f
    <3>1. \A k \in Helpers : ~Chunking(k, f)
      BY <1>2, <2>3
    <3>2. Carries(h, helper[h], f)'
      BY <1>1, <1>3, <1>4, <1>5 DEF Carries
    <3> QED
      BY <1>10, <2>2, <2>3, <3>1, <3>2
  <2>4. CASE g # f
    <3>1. ASSUME NEW k \in Helpers, Chunking(k, g)
          PROVE  Carries(k, helper[k], g)'
      <4>1. helper'[k] = helper[k]
        BY <1>1, <1>4, <3>1, NoHelpIs DEF Chunking
      <4>2. Carries(k, helper[k], g)
        BY <2>1, <3>1 DEF Chunked
      <4> QED
        BY <1>1, <1>5, <2>4, <4>1, <4>2 DEF Carries, Plain
    <3> QED
      BY <1>10, <2>1, <2>2, <2>4, <3>1 DEF Chunked
  <2> QED
    BY <2>3, <2>4
<1>12. Complete'
  BY <1>1, <1>2, <1>3, <1>4, <1>5, <1>6 DEF Complete, Sent
<1>13. Saving'
  BY <1>1, <1>2, <1>3, <1>4 DEF Saving, Saves, Edited
<1> QED
  BY <1>7, <1>8, <1>9, <1>11, <1>12, <1>13

LEMMA NamesStep ==
    ASSUME WsIInv,
           \/ \E f \in Uploads : UploadCancel(f)
           \/ \E p \in Paths, f \in Files \ Uploads : Touch(p, f)
           \/ \E p, q \in Paths : MoveFile(p, q)
           \/ \E p \in Paths : Trash(p)
           \/ UNCHANGED wsVars
    PROVE  WsIInv'
<1> USE DEF WsIInv
<1>1. /\ entry \in [Paths -> Files \cup {NoFile}]
      /\ \A p \in Paths : Sent(entry[p]) /\ entry[p] \in made \cup {NoFile}
      /\ Sent(NoFile)
  BY WorkspaceAssumption DEF FilesTyped, Complete, Made, Sent
<1>2. CASE (\E f \in Uploads : UploadCancel(f)) \/ UNCHANGED wsVars
  <2>1. UNCHANGED <<entry, content, client, crowded, helper, made>>
    BY <1>2 DEF UploadCancel, wsVars
  <2> QED
    BY <1>1, <2>1, EntryStep
<1>3. CASE \E p \in Paths, f \in Files \ Uploads : Touch(p, f)
  <2>1. PICK p \in Paths, f \in Files \ Uploads : Touch(p, f)
    BY <1>3
  <2>2. /\ made' = made \cup {f} /\ entry' = [entry EXCEPT ![p] = f]
        /\ UNCHANGED <<content, client, crowded, helper>>
    BY <2>1 DEF Touch
  <2>3. Sent(f)
    BY DEF Sent, FilesTyped
  <2>4. /\ entry' \in [Paths -> Files \cup {NoFile}]
        /\ \A q \in Paths : Sent(entry'[q]) /\ entry'[q] \in made' \cup {NoFile}
    BY <1>1, <2>2, <2>3
  <2> QED
    BY <2>2, <2>4, EntryStep
<1>4. CASE \E p, q \in Paths : MoveFile(p, q)
  <2>1. PICK p \in Paths, q \in Paths : MoveFile(p, q)
    BY <1>4
  <2>2. /\ entry' = [entry EXCEPT ![q] = entry[p], ![p] = NoFile]
        /\ UNCHANGED <<content, client, crowded, helper, made>>
    BY <2>1 DEF MoveFile
  <2>3. /\ entry' \in [Paths -> Files \cup {NoFile}]
        /\ \A k \in Paths : Sent(entry'[k]) /\ entry'[k] \in made \cup {NoFile}
    BY <1>1, <2>2
  <2> QED
    BY <2>2, <2>3, EntryStep
<1>5. CASE \E p \in Paths : Trash(p)
  <2>1. PICK p \in Paths : Trash(p)
    BY <1>5
  <2>2. /\ entry' = [entry EXCEPT ![p] = NoFile]
        /\ UNCHANGED <<content, client, crowded, helper, made>>
    BY <2>1 DEF Trash
  <2>3. /\ entry' \in [Paths -> Files \cup {NoFile}]
        /\ \A k \in Paths : Sent(entry'[k]) /\ entry'[k] \in made \cup {NoFile}
    BY <1>1, <2>2
  <2> QED
    BY <2>2, <2>3, EntryStep
<1> QED
  BY <1>2, <1>3, <1>4, <1>5

-----------------------------------------------------------------------------
(* Steps that change what a file holds. *)

LEMMA WriteAtIs ==
    ASSUME NEW text \in Seq(Block), NEW k \in Nat, NEW x \in Block
    PROVE  /\ WriteAt(text, k, x) \in Seq(Block) /\ WriteAt(text, k, x) # <<>>
           /\ k = Len(text) => WriteAt(text, k, x) = Append(text, x)
           /\ k = 0 => WriteAt(text, k, x)[1] = x
<1>1. CASE k < Len(text)
  <2>1. WriteAt(text, k, x) = [text EXCEPT ![k + 1] = x]
    BY <1>1 DEF WriteAt, ReplaceAt
  <2>2. k + 1 \in 1..Len(text) /\ Len(text) \in Nat
    BY <1>1
  <2>3. [text EXCEPT ![k + 1] = x] \in Seq(Block) /\ Len([text EXCEPT ![k + 1] = x]) = Len(text)
        /\ [text EXCEPT ![k + 1] = x][k + 1] = x
    BY <2>2
  <2>4. WriteAt(text, k, x) # <<>>
    BY <2>1, <2>2, <2>3
  <2>5. WriteAt(text, k, x)[k + 1] = x
    <3> DEFINE w == [text EXCEPT ![k + 1] = x]
    <3>1. w[k + 1] = x /\ WriteAt(text, k, x) = w
      BY <2>1, <2>3
    <3> HIDE DEF w
    <3> QED
      BY <3>1
  <2>6. k = 0 => k + 1 = 1
    OBVIOUS
  <2>7. k = 0 => WriteAt(text, k, x)[1] = x
    BY <2>5, <2>6
  <2>8. k # Len(text)
    BY <1>1, <2>2
  <2>9. WriteAt(text, k, x) \in Seq(Block)
    BY <2>1, <2>3
  <2> QED
    BY <2>4, <2>7, <2>8, <2>9
<1>2. CASE ~(k < Len(text))
  <2>1. WriteAt(text, k, x) = Append(text, x)
    BY <1>2 DEF WriteAt
  <2>2. Append(text, x) \in Seq(Block) /\ Len(Append(text, x)) = Len(text) + 1 /\ Len(text) \in Nat
        /\ Append(text, x)[Len(text) + 1] = x
    OBVIOUS
  <2> QED
    BY <1>2, <2>1, <2>2
<1> QED
  BY <1>1, <1>2

\* h writes, and those that have the same file are told.
LEMMA Changed ==
    ASSUME WsIInv, NEW h \in Helpers, NEW f \in Files, NEW text \in Seq(Block), NEW r \in Help,
           Changes(h, f, text, r)
    PROVE  /\ content' \in [Files -> Seq(Block)] /\ content'[f] = text
           /\ \A g \in Files : g # f => content'[g] = content[g]
           /\ helper' \in [Helpers -> Help] /\ helper'[h] = r
           /\ \A g \in Helpers \ {h} :
                 /\ helper'[g].op = helper[g].op /\ helper'[g].at = helper[g].at
                 /\ helper'[g].path = helper[g].path /\ helper'[g].file = helper[g].file
                 /\ helper'[g].place = helper[g].place /\ helper'[g].text = helper[g].text
                 /\ helper'[g].saw = helper[g].saw
                 /\ helper[g].file = f => helper'[g].raced
                 /\ helper[g].file # f => helper'[g] = helper[g]
<1> DEFINE told(g) == [helper[g] EXCEPT !.raced = TRUE]
<1>1. /\ content' = [content EXCEPT ![f] = text]
      /\ helper' = [g \in Helpers |-> IF g = h THEN r
                                      ELSE IF helper[g].file = f THEN told(g) ELSE helper[g]]
  BY DEF Changes
<1>2. content \in [Files -> Seq(Block)] /\ helper \in [Helpers -> Help]
  BY DEF WsIInv, FilesTyped
<1>3. \A g \in Helpers :
          /\ told(g) \in Help /\ told(g).raced /\ told(g).op = helper[g].op
          /\ told(g).at = helper[g].at /\ told(g).path = helper[g].path
          /\ told(g).file = helper[g].file /\ told(g).place = helper[g].place
          /\ told(g).text = helper[g].text /\ told(g).saw = helper[g].saw
  <2> SUFFICES ASSUME NEW g \in Helpers
               PROVE  /\ told(g) \in Help /\ told(g).raced /\ told(g).op = helper[g].op
                      /\ told(g).at = helper[g].at /\ told(g).path = helper[g].path
                      /\ told(g).file = helper[g].file /\ told(g).place = helper[g].place
                      /\ told(g).text = helper[g].text /\ told(g).saw = helper[g].saw
    OBVIOUS
  <2>1. helper[g] \in Help
    BY <1>2
  <2> QED
    BY <2>1 DEF Help
<1> HIDE DEF told
<1>4. /\ content' \in [Files -> Seq(Block)] /\ content'[f] = text
      /\ \A g \in Files : g # f => content'[g] = content[g]
  BY <1>1, <1>2
<1>5. helper' \in [Helpers -> Help] /\ helper'[h] = r
  BY <1>1, <1>2, <1>3
<1>6. \A g \in Helpers \ {h} :
          /\ helper[g].file = f => helper'[g] = told(g)
          /\ helper[g].file # f => helper'[g] = helper[g]
  BY <1>1
<1> QED
  BY <1>3, <1>4, <1>5, <1>6

LEMMA ChangeStep ==
    ASSUME WsIInv, NEW h \in Helpers, NEW f \in Files, NEW text \in Seq(Block), NEW r \in Help,
           Changes(h, f, text, r), UNCHANGED <<entry, client, made, crowded>>,
           helper[h].file = f, helper[h].op \in {"chunk", "save"}, text # <<>>, f \in made,
           About(r), r.file \in made \cup {NoFile},
           \* a chunk, the first that was not answered for, or a save
           r.op = "chunk" <=> helper[h].op = "chunk",
           helper[h].op = "chunk" => r.file = f /\ r.at = "answer",
           f \notin crowded /\ helper[h].op = "chunk" =>
               /\ text = UpTo(client[f].next + 1) /\ r.text = client[f].next + 1,
           r.op \in {"finish", "save"} => r.op = "save" /\ r.file = f /\ r.at = "trim",
           f \notin crowded /\ helper[h].op = "save" => text[1] \in Edits
    PROVE  WsIInv'
<1> USE DEF WsIInv
<1>1. /\ content' \in [Files -> Seq(Block)] /\ content'[f] = text
      /\ \A g \in Files : g # f => content'[g] = content[g]
      /\ helper' \in [Helpers -> Help] /\ helper'[h] = r
  BY Changed
<1>2. \A g \in Helpers \ {h} :
          /\ helper'[g].op = helper[g].op /\ helper'[g].at = helper[g].at
          /\ helper'[g].path = helper[g].path /\ helper'[g].file = helper[g].file
          /\ helper'[g].place = helper[g].place /\ helper'[g].text = helper[g].text
          /\ helper'[g].saw = helper[g].saw
          /\ helper[g].file = f => helper'[g].raced
          /\ helper[g].file # f => helper'[g] = helper[g]
  BY Changed
<1>3. FilesTyped'
  BY <1>1 DEF FilesTyped
<1>4. Made'
  BY <1>1, <1>2 DEF Made
<1>5. Requests'
  BY <1>1, <1>2 DEF Requests, About
<1>6. \A g \in Helpers, k \in DOMAIN client : Chunking(g, k)' <=> Chunking(g, k)
  BY <1>1, <1>2 DEF Chunking
<1>7. Waiting'
  <2> SUFFICES ASSUME NEW k \in DOMAIN client, client[k].waits # NoFile
               PROVE  helper'[client[k].waits].op = "chunk" /\ helper'[client[k].waits].file = k
    BY DEF Waiting
  <2>1. /\ client[k].waits \in Helpers
        /\ helper[client[k].waits].op = "chunk" /\ helper[client[k].waits].file = k
    BY DEF Waiting, FilesTyped
  <2> QED
    BY <1>1, <1>2, <2>1
<1>8. Chunked'
  <2> SUFFICES ASSUME NEW k \in DOMAIN client \ crowded
               PROVE  /\ Holds(k)'
                      /\ \A g \in Helpers : Chunking(g, k)' => Carries(g, helper[g], k)'
    BY <1>6 DEF Chunked
  <2>1. k \in Files /\ client[k].next \in Nat
    BY WorkspaceAssumption DEF FilesTyped
  <2>2. CASE k # f
    <3>1. content'[k] = content[k]
      BY <1>1, <2>1, <2>2
    <3>2. Holds(k)'
      BY <3>1 DEF Chunked, Holds, Plain, Edited
    <3>3. ASSUME NEW g \in Helpers, Chunking(g, k) PROVE Carries(g, helper[g], k)'
      <4>1. helper'[g] = helper[g]
        BY <1>2, <2>2, <3>3 DEF Chunking
      <4> QED
        BY <3>1, <3>3, <4>1 DEF Chunked, Carries, Plain
    <3> QED
      BY <1>6, <3>2, <3>3
  <2>3. CASE k = f /\ helper[h].op = "chunk"
    <3>1. /\ Carries(h, helper[h], f) /\ \A g \in Helpers : Chunking(g, f) => g = h
      BY <2>3 DEF Chunked, Chunking
    <3>2. content'[f] = UpTo(client[f].next + 1) /\ client[f].next < Chunks
      BY <1>1, <2>3, <3>1 DEF Carries
    <3>3. Holds(f)'
      <4>1. client[f].next + 1 \in client[f].next..Chunks
        BY <2>1, <2>3, <3>2, WorkspaceAssumption
      <4> QED
        BY <3>2, <4>1 DEF Holds, Plain
    <3>4. Carries(h, helper[h], f)'
      BY <1>1, <2>3, <3>1, <3>2 DEF Carries, Plain
    <3> QED
      BY <1>6, <2>3, <3>1, <3>3, <3>4
  <2>4. CASE k = f /\ helper[h].op = "save"
    <3>1. client[f].next = Chunks
      BY <2>4 DEF Complete, Sent
    <3>2. Holds(f)'
      BY <1>1, <2>4, <3>1 DEF Holds, Edited
    <3>3. \A g \in Helpers : ~Chunking(g, f)
      BY <2>4, <3>1, WorkspaceAssumption DEF Chunked, Carries
    <3> QED
      BY <1>6, <2>4, <3>2, <3>3
  <2> QED
    BY <2>2, <2>3, <2>4
<1>9. Complete'
  <2>1. Sent(f) \/ helper[h].op = "chunk"
    BY DEF Complete
  <2>2. \A g \in Helpers : helper'[g].op \in {"finish", "save"} => Sent(helper'[g].file)
    BY <1>1, <1>2, <2>1 DEF Complete
  <2> QED
    BY <2>2 DEF Complete, Sent
<1>10. Saving'
  <2> SUFFICES ASSUME NEW g \in Helpers, helper'[g].op = "save" PROVE Saves(helper[g])'
    BY DEF Saving, Saves
  <2>1. CASE g = h
    BY <1>1, <2>1 DEF Saves, Edited
  <2>2. CASE g # h /\ helper[g].file # f
    <3>1. helper'[g] = helper[g] /\ Saves(helper[g]) /\ About(helper[g])
      BY <1>2, <2>2 DEF Saving, Requests
    <3>2. helper[g].at \in {"write", "trim"} => content'[helper[g].file] = content[helper[g].file]
      BY <1>1, <2>2, <3>1 DEF About
    <3> QED
      BY <3>1, <3>2 DEF Saves, Edited
  <2>3. CASE g # h /\ helper[g].file = f
    <3>1. /\ helper'[g].raced /\ helper'[g].file = f /\ helper[g].op = "save"
          /\ helper'[g].at = helper[g].at
      BY <1>2, <2>3
    <3>2. ASSUME f \notin crowded, helper[g].at = "trim" PROVE text[1] \in Edits
      <4>1. CASE helper[h].op = "save"
        BY <3>2, <4>1
      <4>2. CASE helper[h].op = "chunk"
        <5>1. f \in DOMAIN client
          BY <4>2 DEF Requests, About
        <5>2. client[f].next < Chunks
          BY <3>2, <4>2, <5>1 DEF Chunked, Chunking, Carries
        <5>3. client[f].next = Chunks
          BY <2>3, <3>1, <3>2, <5>1 DEF Complete, Sent
        <5> QED
          BY <5>2, <5>3, WorkspaceAssumption
      <4> QED
        BY <4>1, <4>2
    <3> QED
      BY <1>1, <3>1, <3>2 DEF Saves, Edited
  <2> QED
    BY <2>1, <2>2, <2>3
<1> QED
  BY <1>3, <1>4, <1>5, <1>7, <1>8, <1>9, <1>10

LEMMA ChunkWriteStep == ASSUME WsIInv, NEW h \in Helpers, ChunkWrite(h) PROVE WsIInv'
<1> USE DEF WsIInv
<1> PICK f \in Files : f = helper[h].file /\ f \in DOMAIN client
  BY WorkspaceAssumption DEF ChunkWrite, Doing, Requests, About, FilesTyped
<1> DEFINE r == [helper[h] EXCEPT !.at = "answer"]
           text == WriteAt(content[f], helper[h].place, helper[h].text)
<1>1. /\ helper[h].op = "chunk" /\ helper[h].at = "write" /\ helper[h] \in Help
      /\ helper[h].text \in Nat /\ helper[h].place \in Nat /\ content[f] \in Seq(Block)
      /\ client[f].next \in Nat /\ f \in made
      /\ Changes(h, f, text, r) /\ UNCHANGED <<entry, client, made, crowded>>
  BY DEF ChunkWrite, Doing, Requests, About, FilesTyped, Help, Made
<1>2. r \in Help /\ r.op = "chunk" /\ r.at = "answer" /\ r.file = f /\ r.text = helper[h].text
  BY <1>1 DEF Help
<1>3. About(r)
  BY <1>1, <1>2 DEF About
<1>4. text \in Seq(Block) /\ text # <<>>
      /\ (helper[h].place = Len(content[f]) => text = Append(content[f], helper[h].text))
  <2>1. helper[h].text \in Block
    BY <1>1 DEF Block
  <2> QED
    BY <1>1, <2>1, WriteAtIs
<1>5. ASSUME f \notin crowded
      PROVE  text = UpTo(client[f].next + 1) /\ r.text = client[f].next + 1
  <2>1. /\ helper[h].place = client[f].next /\ content[f] = UpTo(client[f].next)
        /\ helper[h].text = client[f].next + 1
    BY <1>1, <1>5 DEF Chunked, Chunking, Carries, Plain
  <2>2. Len(content[f]) = client[f].next
    BY <1>1, <2>1, UpToIs
  <2>3. UpTo(client[f].next + 1) = Append(UpTo(client[f].next), client[f].next + 1)
    BY <1>1, UpToIs
  <2> QED
    BY <1>2, <1>4, <2>1, <2>2, <2>3
<1> HIDE DEF r, text
<1> QED
  BY <1>1, <1>2, <1>3, <1>4, <1>5, ChangeStep

LEMMA SaveWriteStep == ASSUME WsIInv, NEW h \in Helpers, SaveWrite(h) PROVE WsIInv'
<1> USE DEF WsIInv
<1> PICK f \in Files : f = helper[h].file
  BY DEF SaveWrite, Doing, Requests, About
<1> DEFINE r == [helper[h] EXCEPT !.at = "trim"]
           text == WriteAt(content[f], 0, helper[h].text)
<1>1. /\ helper[h].op = "save" /\ helper[h].at = "write" /\ helper[h] \in Help
      /\ helper[h].text \in Edits /\ content[f] \in Seq(Block)
      /\ Changes(h, f, text, r) /\ UNCHANGED <<entry, client, made, crowded>>
  BY DEF SaveWrite, Doing, Requests, About, FilesTyped
<1>2. f \in made
  BY WorkspaceAssumption DEF Made
<1>3. r \in Help /\ r.op = "save" /\ r.at = "trim" /\ r.file = f /\ r.text = helper[h].text
  BY <1>1 DEF Help
<1>4. About(r)
  BY <1>1, <1>3 DEF About
<1>5. text \in Seq(Block) /\ text # <<>> /\ text[1] = helper[h].text
  <2>1. helper[h].text \in Block
    BY <1>1 DEF Block
  <2> QED
    BY <1>1, <2>1, WriteAtIs
<1> HIDE DEF r, text
<1> QED
  BY <1>1, <1>2, <1>3, <1>4, <1>5, ChangeStep

LEMMA SaveTrimStep == ASSUME WsIInv, NEW h \in Helpers, SaveTrim(h) PROVE WsIInv'
<1> USE DEF WsIInv
<1> PICK f \in Files : f = helper[h].file
  BY DEF SaveTrim, Doing, Requests, About
<1> DEFINE text == SubSeq(content[f], 1, 1)
<1>1. /\ helper[h].op = "save" /\ helper[h].at = "trim"
      /\ content[f] \in Seq(Block) /\ content[f] # <<>>
      /\ Changes(h, f, text, NoHelp) /\ UNCHANGED <<entry, client, made, crowded>>
  BY DEF SaveTrim, Doing, Saving, Saves, FilesTyped
<1>2. f \in made
  BY WorkspaceAssumption DEF Made
<1>3. f \notin crowded => content[f][1] \in Edits
  BY <1>1 DEF Saving, Saves, Edited
<1>4. text \in Seq(Block) /\ text # <<>> /\ text[1] = content[f][1]
  <2>1. Len(content[f]) \in Nat \ {0}
    BY <1>1
  <2>2. Len(text) = 1 /\ text[1] = content[f][1] /\ text \in Seq(Block)
    BY <1>1, <2>1
  <2> HIDE DEF text
  <2>3. text # <<>>
    <3>1. text = <<>> => Len(text) = 0
      OBVIOUS
    <3> QED
      BY <2>2, <3>1
  <2> QED
    BY <2>2, <2>3
<1> HIDE DEF text
<1> QED
  BY <1>1, <1>2, <1>3, <1>4, NoHelpIs, ChangeStep

\* A request that is killed while it writes a chunk.
LEMMA CutStep ==
    ASSUME WsIInv, NEW h \in Helpers, NEW f \in Files, f = helper[h].file,
           helper' = [helper EXCEPT ![h] = NoHelp], Answered(h, client[f].next),
           helper[h].op = "chunk", helper[h].at = "write", helper[h].place = Len(content[f]),
           content' = [content EXCEPT ![f] = Append(@, Cut)],
           UNCHANGED <<entry, made, crowded>>
    PROVE  WsIInv'
<1> USE DEF WsIInv
<1>1. /\ f \in DOMAIN client /\ client[f].next \in Nat /\ content[f] \in Seq(Block)
  BY DEF Requests, About, FilesTyped
<1>2. /\ helper' \in [Helpers -> Help] /\ helper'[h] = NoHelp
      /\ \A g \in Helpers \ {h} : helper'[g] = helper[g]
  BY HelperBecomes, NoHelpIs DEF FilesTyped
<1>3. /\ DOMAIN client' = DOMAIN client
      /\ client' \in [DOMAIN client' -> [next : Nat, waits : Helpers \cup {NoFile}]]
      /\ \A k \in DOMAIN client :
            IF client[k].waits = h THEN client'[k].next = client[f].next /\ client'[k].waits = NoFile
            ELSE client'[k] = client[k]
  BY <1>1, Released
<1>4. /\ content' \in [Files -> Seq(Block)] /\ content'[f] = Append(content[f], Cut)
      /\ content'[f] # <<>>
      /\ \A k \in Files : k # f => content'[k] = content[k]
  <2>1. Append(content[f], Cut) \in Seq(Block) /\ Append(content[f], Cut) # <<>>
    BY <1>1 DEF Block
  <2> QED
    BY <2>1 DEF FilesTyped
<1>5. \A k \in DOMAIN client : /\ client[k].waits = h => k = f
                               /\ client'[k].next = client[k].next
                               /\ client'[k].waits \in {client[k].waits, NoFile}
                               /\ client'[k].waits # h
                               /\ k # f => client'[k] = client[k]
  BY <1>3, WorkspaceAssumption DEF Waiting
<1>6. FilesTyped' /\ Made' /\ Requests'
  <2>1. f \in made
    BY <1>1 DEF Made
  <2> QED
    BY <1>2, <1>3, <1>4, <2>1, NoHelpIs DEF FilesTyped, Made, Requests, About
<1>7. Waiting'
  <2> SUFFICES ASSUME NEW k \in DOMAIN client, client'[k].waits # NoFile
               PROVE  helper'[client'[k].waits].op = "chunk" /\ helper'[client'[k].waits].file = k
    BY <1>3 DEF Waiting
  <2>1. client'[k].waits = client[k].waits /\ client[k].waits # h /\ client[k].waits \in Helpers
    BY <1>5 DEF FilesTyped
  <2> QED
    BY <1>2, <2>1 DEF Waiting
<1>8. \A g \in Helpers, k \in DOMAIN client : Chunking(g, k)' => g # h /\ Chunking(g, k)
  BY <1>2, NoHelpIs DEF Chunking
<1>9. f \notin crowded => client[f].next < Chunks /\ content[f] = UpTo(client[f].next)
                          /\ \A g \in Helpers : Chunking(g, f) => g = h
  BY <1>1 DEF Chunked, Chunking, Carries, Plain
<1>10. Chunked'
  <2> SUFFICES ASSUME NEW k \in DOMAIN client \ crowded
               PROVE  /\ Holds(k)'
                      /\ \A g \in Helpers : Chunking(g, k)' => Carries(g, helper[g], k)'
    BY <1>3, <1>8 DEF Chunked
  <2>1. CASE k = f
    <3>1. client[f].next \in client[f].next..(Chunks - 1)
      BY <1>1, <1>9, <2>1, WorkspaceAssumption
    <3>2. Holds(f)'
      BY <1>4, <1>5, <1>9, <2>1, <3>1 DEF Holds
    <3> QED
      BY <1>8, <1>9, <2>1, <3>2
  <2>2. CASE k # f
    <3>1. content'[k] = content[k] /\ client'[k] = client[k]
      BY <1>4, <1>5, <2>2, WorkspaceAssumption DEF FilesTyped
    <3>2. Holds(k)'
      BY <3>1 DEF Chunked, Holds, Plain, Edited
    <3>3. ASSUME NEW g \in Helpers, Chunking(g, k), g # h PROVE Carries(g, helper[g], k)'
      BY <1>2, <3>1, <3>3 DEF Chunked, Carries, Plain
    <3> QED
      BY <1>8, <3>2, <3>3
  <2> QED
    BY <2>1, <2>2
<1>11. Complete'
  BY <1>2, <1>3, <1>5, NoHelpIs DEF Complete, Sent
<1>12. Saving'
  <2> SUFFICES ASSUME NEW g \in Helpers \ {h}, helper[g].op = "save" PROVE Saves(helper[g])'
    BY <1>2, NoHelpIs DEF Saving, Saves
  <2>1. helper'[g] = helper[g] /\ Saves(helper[g]) /\ About(helper[g])
    BY <1>2 DEF Saving, Requests
  <2>2. CASE helper[g].file # f
    <3>1. helper[g].at \in {"write", "trim"} => content'[helper[g].file] = content[helper[g].file]
      BY <1>4, <2>1, <2>2 DEF About
    <3> QED
      BY <2>1, <3>1 DEF Saves, Edited
  <2>3. CASE helper[g].file = f
    <3>1. f \in crowded
      BY <1>1, <1>9, <2>3, WorkspaceAssumption DEF Complete, Sent
    <3> QED
      BY <1>4, <2>1, <2>3, <3>1 DEF Saves
  <2> QED
    BY <2>2, <2>3
<1> QED
  BY <1>6, <1>7, <1>10, <1>11, <1>12

LEMMA KillHelperStep == ASSUME WsIInv, NEW h \in Helpers, KillHelper(h) PROVE WsIInv'
<1> DEFINE f == helper[h].file
<1>1. /\ helper' = [helper EXCEPT ![h] = NoHelp] /\ Answered(h, client[f].next)
      /\ UNCHANGED <<entry, made, crowded>>
  BY DEF KillHelper
<1>2. CASE helper[h].op = "chunk"
  <2>1. f \in DOMAIN client /\ f \in Files /\ client[f].next \in Nat
    BY <1>2, WorkspaceAssumption DEF WsIInv, Requests, About, FilesTyped
  <2>2. CASE UNCHANGED content
    <3>1. ASSUME NEW k \in DOMAIN client \ crowded, client[k].waits = h
          PROVE  client[f].next = client[k].next
      BY <3>1, WorkspaceAssumption DEF WsIInv, Waiting
    <3> QED
      BY <1>1, <2>1, <2>2, <3>1, ReleaseStep
  <2>3. CASE ~ UNCHANGED content
    <3>1. /\ helper[h].at = "write" /\ helper[h].place = Len(content[f])
          /\ content' = [content EXCEPT ![f] = Append(@, Cut)]
      BY <2>3 DEF KillHelper, Doing
    <3> QED
      BY <1>1, <1>2, <2>1, <3>1, CutStep
  <2> QED
    BY <2>2, <2>3
<1>3. CASE helper[h].op # "chunk"
  <2>1. \A k \in DOMAIN client : client[k].waits # h
    BY <1>3, WorkspaceAssumption DEF WsIInv, Waiting
  <2>2. UNCHANGED content
    BY <1>3 DEF KillHelper, Doing
  <2>3. Answered(h, 0)
    BY <1>1, <2>1 DEF Answered
  <2> QED
    BY <1>1, <2>1, <2>2, <2>3, ReleaseStep
<1> QED
  BY <1>2, <1>3

-----------------------------------------------------------------------------
LEMMA WsInductive == WsIInv /\ [WsNext]_wsVars => WsIInv'
<1> SUFFICES ASSUME WsIInv, [WsNext]_wsVars PROVE WsIInv'
  OBVIOUS
<1>1. CASE \E f \in Uploads : UploadBegin(f) \/ GiveUp(f)
  BY <1>1, UploadBeginStep, GiveUpStep
<1>2. CASE \/ \E f \in Uploads : UploadCancel(f)
           \/ \E p \in Paths, f \in Files \ Uploads : Touch(p, f)
           \/ \E p, q \in Paths : MoveFile(p, q)
           \/ \E p \in Paths : Trash(p)
           \/ UNCHANGED wsVars
  BY <1>2, NamesStep
<1>3. ASSUME NEW h \in Helpers,
             \/ \E f \in Uploads : SendChunk(h, f)
             \/ \E f \in Uploads, p \in Paths, over \in BOOLEAN : SendFinish(h, f, p, over)
             \/ ChunkCheck(h) \/ ChunkSeek(h) \/ ChunkWrite(h) \/ ChunkAnswer(h)
             \/ FinishLook(h) \/ FinishRename(h)
             \/ \E p \in Paths, text \in Edits : ReadFile(h, p, text)
             \/ SaveCheck(h) \/ SaveWrite(h) \/ SaveTrim(h) \/ KillHelper(h)
      PROVE  WsIInv'
  BY <1>3, SendChunkStep, SendFinishStep, ChunkCheckStep, ChunkSeekStep, ChunkWriteStep,
     ChunkAnswerStep, FinishStep, ReadFileStep, SaveCheckStep, SaveWriteStep, SaveTrimStep,
     KillHelperStep
<1> QED
  BY <1>1, <1>2, <1>3 DEF WsNext

\* The inductive invariant of the file manager: what a request in flight may still do to a file,
\* that an upload is complete before it gets a name, and that no one writes chunks to a file with
\* a name, unless a chunk was sent again while the first was at work.
THEOREM WsAlways == WsSpec => []WsIInv
BY WsInitially, WsInductive, PTL DEF WsSpec

\* An upload that has its name holds the chunks its client sent, each once and in order, unless it
\* was edited since or a chunk was sent again while the first was at work.
THEOREM UploadsStayWhole == WsSpec => []UploadsAreWhole
<1>1. WsIInv => UploadsAreWhole
  <2> SUFFICES ASSUME WsIInv, NEW p \in Paths, NEW f, f = entry[p], f \in DOMAIN client,
                      f \notin crowded
               PROVE  \/ content[f] = [i \in 1..Chunks |-> i]
                      \/ ToSet(content[f]) \cap Edits # {}
    BY DEF UploadsAreWhole
  <2>1. client[f].next = Chunks /\ Holds(f) /\ content[f] \in Seq(Block)
    BY WorkspaceAssumption DEF WsIInv, Complete, Sent, Chunked, FilesTyped
  <2>2. CASE \E k \in client[f].next..Chunks : Plain(f, k)
    BY <2>1, <2>2, WorkspaceAssumption DEF Plain, UpTo
  <2>3. CASE \E k \in client[f].next..(Chunks - 1) : content[f] = Append(UpTo(k), Cut)
    BY <2>1, <2>3, WorkspaceAssumption
  <2>4. CASE Edited(f)
    <3>1. content[f][1] \in ToSet(content[f])
      BY <2>1, <2>4 DEF Edited, ToSet
    <3> QED
      BY <2>4, <3>1 DEF Edited
  <2> QED
    BY <2>1, <2>2, <2>3, <2>4 DEF Holds
<1> QED
  BY <1>1, WsAlways, PTL

\* What a step may do to a file that has a name.
LEMMA Replaced ==
    ASSUME WsIInv, WsNext, NEW p \in Paths, entry[p] # NoFile, entry'[p] # NoFile,
           entry'[p] # entry[p]
    PROVE  \E h \in Helpers : /\ Doing(h, "finish", "rename")
                              /\ helper[h].over /\ helper'[h] = NoHelp
<1>1. entry \in [Paths -> Files \cup {NoFile}] /\ helper \in [Helpers -> Help]
  BY DEF WsIInv, FilesTyped
<1>2. CASE \E q \in Paths, f \in Files : Touch(q, f)
  BY <1>1, <1>2 DEF Touch
<1>3. CASE \E q, t \in Paths : MoveFile(q, t)
  BY <1>1, <1>3 DEF MoveFile
<1>4. CASE \E q \in Paths : Trash(q)
  BY <1>1, <1>4 DEF Trash
<1>5. CASE \E h \in Helpers : FinishRename(h)
  <2> PICK h \in Helpers : FinishRename(h)
    BY <1>5
  <2>1. /\ Doing(h, "finish", "rename") /\ helper' = [helper EXCEPT ![h] = NoHelp]
        /\ helper[h].over \/ entry[helper[h].path] = NoFile
        /\ entry' = [entry EXCEPT ![helper[h].path] = helper[h].file]
    BY DEF FinishRename, Renamed
  <2>2. helper[h].path = p
    BY <1>1, <2>1
  <2> QED
    BY <1>1, <2>1, <2>2
<1>6. ASSUME UNCHANGED entry PROVE FALSE
  BY <1>6
<1>7. ASSUME NEW h \in Helpers,
             \/ \E f \in Uploads : SendChunk(h, f)
             \/ \E f \in Uploads, q \in Paths, over \in BOOLEAN : SendFinish(h, f, q, over)
             \/ ChunkCheck(h) \/ ChunkSeek(h) \/ ChunkWrite(h) \/ ChunkAnswer(h)
             \/ FinishLook(h)
             \/ \E q \in Paths, text \in Edits : ReadFile(h, q, text)
             \/ SaveCheck(h) \/ SaveWrite(h) \/ SaveTrim(h) \/ KillHelper(h)
      PROVE  FALSE
  BY <1>6, <1>7 DEF SendChunk, SendFinish, ChunkCheck, ChunkSeek, ChunkWrite, ChunkAnswer,
     FinishLook, ReadFile, SaveCheck, SaveWrite, SaveTrim, KillHelper
<1>8. ASSUME NEW f \in Uploads, UploadBegin(f) \/ GiveUp(f) \/ UploadCancel(f) PROVE FALSE
  BY <1>6, <1>8 DEF UploadBegin, GiveUp, UploadCancel
<1> QED
  BY <1>2, <1>3, <1>4, <1>5, <1>7, <1>8 DEF WsNext

LEMMA Rewritten ==
    ASSUME WsIInv, WsNext, NEW p \in Paths, NEW f \in Files, f = entry[p],
           content'[f] # content[f], f \notin crowded
    PROVE  \E h \in Helpers : /\ helper[h].op = "save" /\ helper[h].file = f
                              /\ helper'[h] # helper[h]
                              /\ \/ helper[h].at = "trim" \/ helper[h].raced
                                 \/ content[f] = helper[h].saw
<1>1. content \in [Files -> Seq(Block)] /\ helper \in [Helpers -> Help] /\ Sent(f)
  BY DEF WsIInv, FilesTyped, Complete
\* No chunk is written to a file that has a name.
<1>2. \A h \in Helpers : helper[h].op = "chunk" => helper[h].file # f
  <2> SUFFICES ASSUME NEW h \in Helpers, helper[h].op = "chunk", helper[h].file = f PROVE FALSE
    OBVIOUS
  <2>1. f \in DOMAIN client
    BY DEF WsIInv, Requests, About
  <2>2. client[f].next = Chunks /\ client[f].next < Chunks
    BY <1>1, <2>1 DEF Sent, WsIInv, Chunked, Chunking, Carries
  <2> QED
    BY <2>2, WorkspaceAssumption
<1>3. ASSUME NEW h \in Helpers, ChunkWrite(h) PROVE FALSE
  <2>1. helper[h].op = "chunk" /\ \E text : content' = [content EXCEPT ![helper[h].file] = text]
    BY <1>3 DEF ChunkWrite, Changes, Doing
  <2> QED
    BY <1>1, <1>2, <2>1
<1>4. ASSUME NEW h \in Helpers, KillHelper(h) PROVE FALSE
  <2>1. helper[h].op = "chunk" /\ \E text : content' = [content EXCEPT ![helper[h].file] = text]
    <3>1. content' # content
      OBVIOUS
    <3> QED
      BY <1>4, <3>1 DEF KillHelper, Doing
  <2> QED
    BY <1>1, <1>2, <2>1
<1>5. ASSUME NEW h \in Helpers, SaveWrite(h) \/ SaveTrim(h)
      PROVE  /\ helper[h].op = "save" /\ helper[h].file = f /\ helper'[h] # helper[h]
             /\ helper[h].at = "trim" \/ helper[h].raced \/ content[f] = helper[h].saw
  <2>1. helper[h].op = "save" /\ \E text : content' = [content EXCEPT ![helper[h].file] = text]
    BY <1>5 DEF SaveWrite, SaveTrim, Changes, Doing
  <2>2. helper[h].file = f
    BY <1>1, <2>1
  <2>3. CASE SaveTrim(h)
    <3>1. helper[h].at = "trim" /\ helper'[h] = NoHelp
      BY <1>1, <2>3 DEF SaveTrim, Changes, Doing
    <3>2. NoHelp.at # "trim"
      BY DEF NoHelp
    <3> QED
      BY <2>1, <2>2, <3>1, <3>2
  <2>4. CASE SaveWrite(h)
    <3>1. helper[h].at = "write" /\ helper'[h] = [helper[h] EXCEPT !.at = "trim"]
      BY <1>1, <2>4 DEF SaveWrite, Changes, Doing
    <3>2. helper[h] \in Help
      BY <1>1
    <3>3. helper'[h].at = "trim"
      BY <3>1, <3>2 DEF Help
    <3>4. helper[h].raced \/ content[f] = helper[h].saw
      BY <2>1, <2>2, <3>1 DEF WsIInv, Saving, Saves
    <3> QED
      BY <2>1, <2>2, <3>1, <3>3, <3>4
  <2> QED
    BY <1>5, <2>3, <2>4
<1>6. ASSUME UNCHANGED content PROVE FALSE
  BY <1>6
<1>7. ASSUME NEW h \in Helpers,
             \/ \E g \in Uploads : SendChunk(h, g)
             \/ \E g \in Uploads, q \in Paths, over \in BOOLEAN : SendFinish(h, g, q, over)
             \/ ChunkCheck(h) \/ ChunkSeek(h) \/ ChunkAnswer(h)
             \/ FinishLook(h) \/ FinishRename(h)
             \/ \E q \in Paths, text \in Edits : ReadFile(h, q, text)
             \/ SaveCheck(h)
      PROVE  FALSE
  BY <1>6, <1>7 DEF SendChunk, SendFinish, ChunkCheck, ChunkSeek, ChunkAnswer, FinishLook,
     FinishRename, Renamed, ReadFile, SaveCheck
<1>8. CASE \/ \E g \in Uploads : UploadBegin(g) \/ GiveUp(g) \/ UploadCancel(g)
           \/ \E q \in Paths, g \in Files \ Uploads : Touch(q, g)
           \/ \E q, t \in Paths : MoveFile(q, t)
           \/ \E q \in Paths : Trash(q)
  BY <1>6, <1>8 DEF UploadBegin, GiveUp, UploadCancel, Touch, MoveFile, Trash
<1> QED
  BY <1>3, <1>4, <1>5, <1>7, <1>8 DEF WsNext

\* What has a name is replaced only by an upload that asked for it, and rewritten only by a save
\* of what its editor saw, or by one that was at work when another request came between, unless a
\* chunk of it was sent again while the first was at work.
THEOREM NamesAreKept == WsSpec => NothingIsOverwritten
<1> DEFINE Held(p) ==
      LET f == entry[p]
      IN  f # NoFile /\ entry'[p] # NoFile =>
              /\ entry'[p] # f => \E h \in Helpers : /\ Doing(h, "finish", "rename")
                                                    /\ helper[h].over /\ helper'[h] = NoHelp
              /\ content'[f] # content[f] =>
                    \/ f \in crowded
                    \/ \E h \in Helpers :
                           /\ helper[h].op = "save" /\ helper[h].file = f
                           /\ helper'[h] # helper[h]
                           /\ \/ helper[h].at = "trim" \/ helper[h].raced
                              \/ content[f] = helper[h].saw
<1>1. ASSUME WsIInv, [WsNext]_wsVars PROVE [\A p \in Paths : Held(p)]_wsVars
  <2> SUFFICES ASSUME WsNext, NEW p \in Paths PROVE Held(p)
    BY <1>1
  <2>1. entry[p] \in Files \cup {NoFile}
    BY <1>1 DEF WsIInv, FilesTyped
  <2> QED
    BY <1>1, <2>1, Replaced, Rewritten
<1> QED
  BY <1>1, WsAlways, PTL DEF WsSpec, NothingIsOverwritten
=============================================================================
