----------------------------- MODULE Workspace -----------------------------
(***************************************************************************)
(* The file manager of one application (src/src/workspace.rs). Each        *)
(* request is a process of its own, under the account's identity and       *)
(* beside all others: the agent runs it without the registry mutex, kills  *)
(* it after 120 seconds, and does not notice when the browser has given    *)
(* up. Files are uploaded in chunks under a hidden name and renamed, and   *)
(* edited in place against the content the editor was given.               *)
(***************************************************************************)
EXTENDS Naturals, Sequences, SequencesExt

CONSTANTS
    Paths,    \* names in the workspace
    Files,    \* files, each made once: a hidden name is random
    Uploads,  \* those that are uploaded
    Helpers,  \* requests that are handled at the same time
    Edits,    \* texts of editors, one block long, and no numbers
    Chunks,   \* blocks of an upload
    Cut,      \* what a killed process wrote of a block
    MaxBreaks, \* bound: how often a connection breaks or a request is killed
    NoFile    \* no file, no helper

VARIABLES
    entry,    \* the file under each name
    staged,   \* the uploads under a hidden name
    content,  \* what a file holds, block by block
    made,     \* the files that were made
    client,   \* who uploads a file: the chunks it has an answer for, the request it waits for
    helper,   \* the requests
    breaks,   \* how many connections broke and requests were killed
    crowded   \* files to which two requests wrote chunks at the same time, for the properties

wsVars == <<entry, staged, content, made, client, helper, breaks, crowded>>

ASSUME WorkspaceAssumption ==
    /\ Uploads \subseteq Files
    /\ Chunks \in Nat \ {0} /\ MaxBreaks \in Nat
    /\ Edits \cap (1..Chunks) = {} /\ Cut \notin Edits \cup (1..Chunks)
    /\ NoFile \notin Files \cup Helpers

\* A request is about file, under path; a chunk goes to place + 1, an editor saw a content, and
\* raced says that another request changed the file since that was compared.
NoHelp == [op |-> "none", at |-> "idle", path |-> NoFile, file |-> NoFile, place |-> 0,
           over |-> FALSE, text |-> NoFile, saw |-> <<>>, raced |-> FALSE]
NoClient == [next |-> 0, waits |-> NoFile]

WsInit ==
    /\ entry = [p \in Paths |-> NoFile]
    /\ staged = {} /\ made = {} /\ crowded = {}
    /\ content = [f \in Files |-> <<>>]
    /\ client = [f \in {} |-> NoClient]
    /\ helper = [h \in Helpers |-> NoHelp]
    /\ breaks = 0

-----------------------------------------------------------------------------
Break == breaks < MaxBreaks /\ breaks' = breaks + 1

Free(h) == helper[h] = NoHelp
Doing(h, op, at) == helper[h].op = op /\ helper[h].at = at
Move(h, at) == helper' = [helper EXCEPT ![h].at = at]

\* The answer of h, or an error, to a client that still waits for it.
Answered(h, next) ==
    client' = [f \in DOMAIN client |-> IF client[f].waits = h
                                       THEN [next |-> next, waits |-> NoFile] ELSE client[f]]

Fails(h) ==
    /\ helper' = [helper EXCEPT ![h] = NoHelp]
    /\ Answered(h, helper[h].place)

\* Block x at place k + 1, which is within the file or next to its end.
WriteAt(text, k, x) == IF k < Len(text) THEN ReplaceAt(text, k + 1, x) ELSE Append(text, x)

\* h changes what f holds, under those that compared it before.
Changes(h, f, text, r) ==
    /\ content' = [content EXCEPT ![f] = text]
    /\ helper' = [g \in Helpers |->
                     IF g = h THEN r
                     ELSE IF helper[g].file = f THEN [helper[g] EXCEPT !.raced = TRUE]
                     ELSE helper[g]]

-----------------------------------------------------------------------------
(* Uploads. *)

UploadBegin(f) ==
    /\ f \notin made /\ made' = made \cup {f}
    /\ staged' = staged \cup {f}
    /\ client' = [g \in DOMAIN client \cup {f} |-> IF g = f THEN NoClient ELSE client[g]]
    /\ UNCHANGED <<entry, content, helper, breaks, crowded>>

\* A client waits for the answer to a chunk before it sends the next, or sends it again.
SendChunk(h, f) ==
    /\ Free(h) /\ f \in DOMAIN client
    /\ client[f].waits = NoFile /\ client[f].next < Chunks
    /\ client' = [client EXCEPT ![f].waits = h]
    /\ helper' = [helper EXCEPT ![h] = [NoHelp EXCEPT !.op = "chunk", !.at = "check", !.file = f,
                                                     !.place = client[f].next]]
    /\ crowded' = IF \E g \in Helpers : helper[g].op = "chunk" /\ helper[g].file = f
                  THEN crowded \cup {f} ELSE crowded
    /\ UNCHANGED <<entry, staged, content, made, breaks>>

\* Mutant: the offset of the request is ignored.
ChunkCheckNothing(h) ==
    /\ Doing(h, "chunk", "check")
    /\ IF helper[h].file \in staged THEN Move(h, "seek") /\ UNCHANGED client ELSE Fails(h)
    /\ UNCHANGED <<entry, staged, content, made, breaks, crowded>>

\* The file is there, and as long as the offset says.
ChunkCheck(h) ==
    LET f == helper[h].file
    IN  /\ Doing(h, "chunk", "check")
        /\ IF f \in staged /\ Len(content[f]) = helper[h].place
           THEN Move(h, "seek") /\ UNCHANGED client
           ELSE Fails(h)
        /\ UNCHANGED <<entry, staged, content, made, breaks, crowded>>

\* To the end of the file, wherever that is by now. What a chunk holds follows from the offset
\* it was sent for.
ChunkSeek(h) ==
    LET f == helper[h].file
    IN  /\ Doing(h, "chunk", "seek")
        /\ helper' = [helper EXCEPT ![h].at = "write", ![h].text = helper[h].place + 1,
                                    ![h].place = Len(content[f])]
        /\ UNCHANGED <<entry, staged, content, made, client, breaks, crowded>>

ChunkWrite(h) ==
    LET f == helper[h].file
    IN  /\ Doing(h, "chunk", "write")
        /\ Changes(h, f, WriteAt(content[f], helper[h].place, helper[h].text),
                   [helper[h] EXCEPT !.at = "answer"])
        /\ UNCHANGED <<entry, staged, made, client, breaks, crowded>>

ChunkAnswer(h) ==
    /\ Doing(h, "chunk", "answer")
    /\ helper' = [helper EXCEPT ![h] = NoHelp]
    /\ Answered(h, helper[h].text)
    /\ UNCHANGED <<entry, staged, content, made, breaks, crowded>>

\* The connection breaks; the request goes on.
GiveUp(f) ==
    /\ Break
    /\ f \in DOMAIN client /\ client[f].waits # NoFile
    /\ client' = [client EXCEPT ![f].waits = NoFile]
    /\ UNCHANGED <<entry, staged, content, made, helper, crowded>>

UploadCancel(f) ==
    /\ f \in staged /\ client[f].waits = NoFile
    /\ staged' = staged \ {f}
    /\ UNCHANGED <<entry, content, made, client, helper, breaks, crowded>>

\* It was told before whether the name is taken, and asks to replace it or not.
SendFinish(h, f, p, over) ==
    /\ Free(h) /\ f \in DOMAIN client
    /\ client[f] = [next |-> Chunks, waits |-> NoFile]
    /\ helper' = [helper EXCEPT ![h] = [NoHelp EXCEPT !.op = "finish", !.at = "look", !.file = f,
                                                     !.path = p, !.over = over]]
    /\ UNCHANGED <<entry, staged, content, made, client, breaks, crowded>>

\* The name is looked up first, for the message,
FinishLook(h) ==
    /\ Doing(h, "finish", "look")
    /\ helper' = [helper EXCEPT ![h] =
                     IF /\ helper[h].file \in staged
                        /\ helper[h].over \/ entry[helper[h].path] = NoFile
                     THEN [@ EXCEPT !.at = "rename"] ELSE NoHelp]
    /\ UNCHANGED <<entry, staged, content, made, client, breaks, crowded>>

Renamed(h, may) ==
    LET f == helper[h].file
    IN  /\ Doing(h, "finish", "rename")
        /\ helper' = [helper EXCEPT ![h] = NoHelp]
        /\ IF f \in staged /\ may
           THEN entry' = [entry EXCEPT ![helper[h].path] = f] /\ staged' = staged \ {f}
           ELSE UNCHANGED <<entry, staged>>
        /\ UNCHANGED <<content, made, client, breaks, crowded>>

\* Mutant: the name is not looked at again.
FinishRenameAnyway(h) == Renamed(h, TRUE)

\* and again by the rename, which refuses to replace it (RENAME_NOREPLACE).
FinishRename(h) == Renamed(h, helper[h].over \/ entry[helper[h].path] = NoFile)

-----------------------------------------------------------------------------
(* The other operations: each looks at a name and changes it in one system call. *)

Touch(p, f) ==
    /\ f \notin made /\ made' = made \cup {f}
    /\ entry[p] = NoFile
    /\ entry' = [entry EXCEPT ![p] = f]
    /\ UNCHANGED <<staged, content, client, helper, breaks, crowded>>

MoveFile(p, q) ==
    /\ entry[p] # NoFile /\ entry[q] = NoFile
    /\ entry' = [entry EXCEPT ![q] = entry[p], ![p] = NoFile]
    /\ UNCHANGED <<staged, content, made, client, helper, breaks, crowded>>

\* Into the trash, under a random name.
Trash(p) ==
    /\ entry[p] # NoFile
    /\ entry' = [entry EXCEPT ![p] = NoFile]
    /\ UNCHANGED <<staged, content, made, client, helper, breaks, crowded>>

-----------------------------------------------------------------------------
(* The editor. *)

\* It is opened, and saves text some time later.
ReadFile(h, p, text) ==
    /\ Free(h) /\ entry[p] # NoFile
    /\ helper' = [helper EXCEPT ![h] = [NoHelp EXCEPT !.op = "save", !.at = "check", !.path = p,
                                                     !.text = text, !.saw = content[entry[p]]]]
    /\ UNCHANGED <<entry, staged, content, made, client, breaks, crowded>>

\* save opens what has the name by then and compares its content, by a digest.
SaveCheck(h) ==
    LET f == entry[helper[h].path]
    IN  /\ Doing(h, "save", "check")
        /\ helper' = [helper EXCEPT ![h] = IF f # NoFile /\ content[f] = helper[h].saw
                                           THEN [@ EXCEPT !.at = "write", !.file = f]
                                           ELSE NoHelp]
        /\ UNCHANGED <<entry, staged, content, made, client, breaks, crowded>>

\* It writes from the start
SaveWrite(h) ==
    LET f == helper[h].file
    IN  /\ Doing(h, "save", "write")
        /\ Changes(h, f, WriteAt(content[f], 0, helper[h].text), [helper[h] EXCEPT !.at = "trim"])
        /\ UNCHANGED <<entry, staged, made, client, breaks, crowded>>

\* and cuts off what is longer.
SaveTrim(h) ==
    LET f == helper[h].file
    IN  /\ Doing(h, "save", "trim")
        /\ Changes(h, f, SubSeq(content[f], 1, 1), NoHelp)
        /\ UNCHANGED <<entry, staged, made, client, breaks, crowded>>

-----------------------------------------------------------------------------
\* A request is killed, perhaps while it writes a chunk.
KillHelper(h) ==
    LET f == helper[h].file
    IN  /\ ~Free(h) /\ Break
        /\ helper' = [helper EXCEPT ![h] = NoHelp]
        /\ Answered(h, client[f].next)
        /\ \/ UNCHANGED content
           \/ /\ Doing(h, "chunk", "write") /\ helper[h].place = Len(content[f])
              /\ content' = [content EXCEPT ![f] = Append(@, Cut)]
        /\ UNCHANGED <<entry, staged, made, crowded>>

WsNext ==
    \/ \E f \in Uploads : UploadBegin(f) \/ GiveUp(f) \/ UploadCancel(f)
    \/ \E p \in Paths, f \in Files \ Uploads : Touch(p, f)
    \/ \E p, q \in Paths : MoveFile(p, q)
    \/ \E p \in Paths : Trash(p)
    \/ \E h \in Helpers :
           \/ \E f \in Uploads : SendChunk(h, f)
           \/ \E f \in Uploads, p \in Paths, over \in BOOLEAN : SendFinish(h, f, p, over)
           \/ ChunkCheck(h) \/ ChunkSeek(h) \/ ChunkWrite(h) \/ ChunkAnswer(h)
           \/ FinishLook(h) \/ FinishRename(h)
           \/ \E p \in Paths, text \in Edits : ReadFile(h, p, text)
           \/ SaveCheck(h) \/ SaveWrite(h) \/ SaveTrim(h) \/ KillHelper(h)

WsSpec == WsInit /\ [][WsNext]_wsVars

-----------------------------------------------------------------------------
\* An upload that has got its name, and was not edited since, holds the chunks its client sent,
\* each once and in order, although answers were lost and requests repeated or killed, unless the
\* client repeated one while the first was still at work: that goes to the end of the file too.
UploadsAreWhole ==
    \A p \in Paths : entry[p] \in DOMAIN client =>
        \/ content[entry[p]] = [i \in 1..Chunks |-> i]
        \/ ToSet(content[entry[p]]) \cap Edits # {}
        \/ entry[p] \in crowded

\* What is under a name is replaced only by an upload that asked for that, or in place by a save
\* whose editor saw the very content, or by one that was already at work when another request
\* changed it (saves that overlap are not told apart by what they saw).
NothingIsOverwritten ==
    [][\A p \in Paths :
          LET f == entry[p]
          IN  f # NoFile /\ entry'[p] # NoFile =>
                  /\ entry'[p] # f => \E h \in Helpers : /\ Doing(h, "finish", "rename")
                                                        /\ helper[h].over /\ helper'[h] = NoHelp
                  /\ content'[f] # content[f] =>
                        \/ f \in crowded
                        \/ \E h \in Helpers :
                               /\ helper[h].op = "save" /\ helper[h].file = f
                               /\ helper'[h] # helper[h]
                               /\ \/ helper[h].at = "trim" \/ helper[h].raced
                                  \/ content[f] = helper[h].saw]_wsVars
=============================================================================
