-------------------------------- MODULE Read --------------------------------
(***************************************************************************)
(* The read tool (read.go) on a file that changes while it is read, and    *)
(* what a client does with its pages: it follows next_offset to the end,   *)
(* and uses a digest it was given as expected_sha256 of a replacement.     *)
(*                                                                         *)
(* The file system is external.  The path names one of several files; a    *)
(* replacement gives it a new one, and a handle keeps the old.  A program  *)
(* that appends or rewrites changes the file behind the handles.  Of the   *)
(* replace tool this module has the last check and the rename, with others *)
(* writing in between; Replace has the rest of it.  The lease, which keeps *)
(* the calls of one tool apart there, is left out here.  A byte tells the  *)
(* change that wrote it and its position; a digest is the sequence of      *)
(* bytes it was computed from.                                             *)
(***************************************************************************)
EXTENDS Naturals, Sequences, FiniteSets

CONSTANTS Clients,          \* who reads, and perhaps replaces
          MaxReadBytes,     \* Config.MaxReadBytes
          MaxLength,        \* bound: length of a file
          MaxChanges,       \* bound: changes of the file
          None              \* no digest

ASSUME ReadAssumption ==
    /\ MaxReadBytes \in Nat \ {0} /\ MaxLength \in Nat /\ MaxChanges \in Nat

VARIABLES
    current, files,     \* the file the path names; the content of each file
    changes, kinds,     \* history: how often the file was changed, and how
    pc, ctxDone,        \* where a client's call is; its context is done
    offset, limit,      \* its arguments
    handle, size,       \* the open file, and info.Size()
    data,               \* what was read so far
    reply,              \* the answer
    view,               \* the client's pages, joined
    seen                \* history: contents of the path since it was last opened

world == <<current, files, changes, kinds>>
call == <<ctxDone, offset, limit, handle, size, data>>
vars == <<world, pc, call, reply, view, seen>>

Content == files[current]
Bytes(change, from, to) == [i \in 1 .. to - from |-> <<change, from + i>>]
Fresh(n) == Bytes(changes + 1, 0, n)

NoAnswer == [kind |-> "none", bytes |-> <<>>, total |-> 0, truncated |-> FALSE,
             next |-> 0, digest |-> None]
Answer(kind) == [NoAnswer EXCEPT !.kind = kind]

Init ==
    /\ current = 0 /\ changes = 0 /\ kinds = {}
    /\ \E n \in 0 .. MaxLength : files = [f \in 0 .. MaxChanges |-> Bytes(0, 0, n)]
    /\ pc = [c \in Clients |-> "idle"]
    /\ ctxDone = [c \in Clients |-> FALSE]
    /\ offset = [c \in Clients |-> 0] /\ limit = [c \in Clients |-> 0]
    /\ handle = [c \in Clients |-> 0] /\ size = [c \in Clients |-> 0]
    /\ data = [c \in Clients |-> <<>>]
    /\ reply = [c \in Clients |-> NoAnswer]
    /\ view = [c \in Clients |-> <<>>]
    /\ seen = [c \in Clients |-> {}]

Goto(c, label) == pc' = [pc EXCEPT ![c] = label]
Return(c, answer) == reply' = [reply EXCEPT ![c] = answer] /\ Goto(c, "done")

-----------------------------------------------------------------------------
(***************************************************************************)
(* Execute and read.                                                       *)
(***************************************************************************)

(* A limit of 0 is the configured bound. *)
Limit(asked) == IF asked = 0 THEN MaxReadBytes ELSE asked

(* A call with these arguments: validateCall, initialContextOutcome,       *)
(* decodeArguments, the range of the limit and reportProgress refuse it,   *)
(* or it goes on to parse the path.                                        *)
Execute(c, from) ==
    /\ \E asked \in 0 .. MaxReadBytes + 1 :
          /\ limit' = [limit EXCEPT ![c] = Limit(asked)]
          /\ \/ \E kind \in {"problem", "definitive", "canceled"} :
                   Return(c, Answer(kind))
             \/ /\ Limit(asked) <= MaxReadBytes
                /\ Goto(c, "opening")
                /\ reply' = [reply EXCEPT ![c] = NoAnswer]
    /\ offset' = [offset EXCEPT ![c] = from]
    /\ data' = [data EXCEPT ![c] = <<>>]
    /\ seen' = [seen EXCEPT ![c] = {}]
    /\ ctxDone' = [ctxDone EXCEPT ![c] = FALSE]
    /\ UNCHANGED <<world, handle, size>>

(* parseRelativePath, openWorktree and Open; each may fail. *)
Open(c) ==
    /\ pc[c] = "opening"
    /\ \/ Return(c, Answer("problem")) /\ UNCHANGED <<handle, seen>>
       \/ /\ handle' = [handle EXCEPT ![c] = current]
          /\ seen' = [seen EXCEPT ![c] = {Content}]
          /\ Goto(c, "statting") /\ UNCHANGED reply
    /\ UNCHANGED <<world, ctxDone, offset, limit, size, data, view>>

(* Mutant: the path is looked up again for the size. *)
SizeOfPath(c) == Len(Content)

SizeOfHandle(c) == Len(files[handle[c]])

(* openRegularFile's Stat of the handle, and the offset against the size. *)
Stat(c) ==
    /\ pc[c] = "statting"
    /\ size' = [size EXCEPT ![c] = SizeOfHandle(c)]
    /\ \/ Return(c, Answer("problem"))
       \/ /\ offset[c] <= size'[c]
          /\ Goto(c, "reading") /\ UNCHANGED reply
    /\ UNCHANGED <<world, ctxDone, offset, limit, handle, data, view, seen>>

(* Seek and ReadAll(LimitReader(limit + 1)): reads of any size until the   *)
(* end of the file or of the limit.                                        *)
Rest(c) == SubSeq(files[handle[c]], offset[c] + Len(data[c]) + 1,
                  Len(files[handle[c]]))

Wanted(c) == limit[c] + 1 - Len(data[c])

ReadSome(c) ==
    /\ pc[c] = "reading"
    /\ \/ Return(c, Answer("problem")) /\ UNCHANGED data
       \/ \E n \in 1 .. Len(Rest(c)) :
             /\ n <= Wanted(c)
             /\ data' = [data EXCEPT ![c] = @ \o SubSeq(Rest(c), 1, n)]
             /\ UNCHANGED <<pc, reply>>
    /\ UNCHANGED <<world, ctxDone, offset, limit, handle, size, view, seen>>

EndOfFile(c) ==
    /\ pc[c] = "reading"
    /\ Wanted(c) = 0 \/ Rest(c) = <<>>
    /\ Goto(c, "checking")
    /\ UNCHANGED <<world, call, reply, view, seen>>

Truncated(c) == Len(data[c]) > limit[c]
Page(c) == IF Truncated(c) THEN SubSeq(data[c], 1, limit[c]) ELSE data[c]

(* Mutant: next_offset counts the byte that was only read to look ahead. *)
OffsetBehindLookahead(c) == offset[c] + Len(data[c])

(* Mutant: next_offset is the length of the page. *)
OffsetOfPage(c) == Len(Page(c))

NextOffset(c) == offset[c] + Len(Page(c))

(* Mutant: the digest is taken from the file, not from the bytes returned. *)
DigestOfPath(c) ==
    IF offset[c] = 0 /\ ~Truncated(c) /\ Len(Page(c)) = size[c]
    THEN Content ELSE None

Digest(c) ==
    IF offset[c] = 0 /\ ~Truncated(c) /\ Len(Page(c)) = size[c]
    THEN Page(c) ELSE None

(* The client's pages, joined.  Offsets only grow, so that no client ever  *)
(* has more than MaxLength bytes; the bound matters to faulty variants.    *)
Joined(c) ==
    LET pages == view[c] \o Page(c)
    IN  SubSeq(pages, 1, IF Len(pages) < MaxLength THEN Len(pages) ELSE MaxLength)

(* contextFailure, and the page; Encoding shows that it always fits. *)
Respond(c) ==
    /\ pc[c] = "checking"
    /\ \/ /\ ctxDone[c] /\ Return(c, Answer("canceled")) /\ UNCHANGED view
       \/ /\ ~ctxDone[c]
          /\ Return(c, [kind |-> "ok", bytes |-> Page(c), total |-> size[c],
                        truncated |-> Truncated(c),
                        next |-> IF Truncated(c) THEN NextOffset(c) ELSE 0,
                        digest |-> Digest(c)])
          /\ view' = [view EXCEPT ![c] = Joined(c)]
    /\ UNCHANGED <<world, call, seen>>

CallStep(c) ==
    Open(c) \/ Stat(c) \/ ReadSome(c) \/ EndOfFile(c) \/ Respond(c)

Cancel(c) ==
    /\ pc[c] \in {"opening", "statting", "reading", "checking"} /\ ~ctxDone[c]
    /\ ctxDone' = [ctxDone EXCEPT ![c] = TRUE]
    /\ UNCHANGED <<world, pc, offset, limit, handle, size, data, reply, view,
                   seen>>

-----------------------------------------------------------------------------
(***************************************************************************)
(* The client (external), and everybody else who changes the file.         *)
(***************************************************************************)
Continues(c) == pc[c] = "done" /\ reply[c].kind = "ok" /\ reply[c].truncated
Finished(c) == pc[c] = "done" /\ ~Continues(c)

FirstPage(c) ==
    /\ pc[c] = "idle"
    /\ Execute(c, 0) /\ view' = [view EXCEPT ![c] = <<>>]

NextPage(c) == Continues(c) /\ Execute(c, reply[c].next) /\ UNCHANGED view

(* The path names another file, or the same file with another content. *)
Install(content) ==
    /\ changes < MaxChanges
    /\ current' = changes + 1
    /\ files' = [files EXCEPT ![changes + 1] = content]
Modify(content) ==
    /\ changes < MaxChanges
    /\ files' = [files EXCEPT ![current] = content]
    /\ UNCHANGED current
Noted(how) ==
    /\ changes' = changes + 1 /\ kinds' = kinds \cup {how}
    /\ seen' = [c \in Clients |->
                  IF pc[c] \in {"idle", "opening", "done"} THEN seen[c]
                  ELSE seen[c] \cup {files'[current']}]

(* The client replaces the file it has read.  boundedDigest opens the      *)
(* target, in the first round of commitReplace or behind a rename that     *)
(* failed, ...                                                             *)
OpenTarget(c) ==
    /\ \/ Finished(c) /\ reply[c].digest # None
       \/ pc[c] = "renaming"
    /\ handle' = [handle EXCEPT ![c] = current]
    /\ seen' = [seen EXCEPT ![c] = {Content}]
    /\ offset' = [offset EXCEPT ![c] = 0]
    /\ data' = [data EXCEPT ![c] = <<>>]
    /\ Goto(c, "verifying")
    /\ UNCHANGED <<world, ctxDone, limit, size, reply, view>>

(* ... and hashes it to its end, ... *)
HashSome(c) ==
    /\ pc[c] = "verifying"
    /\ \E n \in 1 .. Len(Rest(c)) :
          data' = [data EXCEPT ![c] = @ \o SubSeq(Rest(c), 1, n)]
    /\ UNCHANGED <<world, pc, ctxDone, offset, limit, handle, size, reply, view,
                   seen>>

(* ... for commitReplace to compare with expected_sha256. *)
CompareDigest(c) ==
    /\ pc[c] = "verifying" /\ Rest(c) = <<>>
    /\ data[c] = reply[c].digest
    /\ Goto(c, "renaming")
    /\ UNCHANGED <<world, call, reply, view, seen>>

(* The rename does not look at what it replaces. *)
Rename(c) ==
    /\ pc[c] = "renaming"
    /\ \E n \in 0 .. MaxLength : Install(Fresh(n))
    /\ Noted("replace")
    /\ Goto(c, "idle")
    /\ UNCHANGED <<call, reply, view>>

(* The client does something else, or the replacement is refused.          *)
StartOver(c) ==
    /\ Finished(c) \/ pc[c] \in {"verifying", "renaming"}
    /\ Goto(c, "idle")
    /\ UNCHANGED <<world, call, reply, view, seen>>

OthersWrite ==
    /\ \/ /\ \E n \in 0 .. MaxLength : Install(Fresh(n))
          /\ Noted("replace")
       \/ /\ Len(Content) < MaxLength
          /\ Modify(Content \o Bytes(changes + 1, Len(Content), Len(Content) + 1))
          /\ Noted("append")
       \/ /\ \E n \in 0 .. MaxLength : Modify(Fresh(n))
          /\ Noted("rewrite")
    /\ UNCHANGED <<pc, call, reply, view>>

Next ==
    \/ \E c \in Clients :
          \/ FirstPage(c) \/ NextPage(c) \/ CallStep(c) \/ Cancel(c)
          \/ OpenTarget(c) \/ HashSome(c) \/ CompareDigest(c) \/ Rename(c)
          \/ StartOver(c)
    \/ OthersWrite

Spec == Init /\ [][Next]_vars

(* File operations return, the client asks for the next page, and its      *)
(* receiver of progress lets the call begin.  A file that grows for ever   *)
(* is excluded by MaxChanges.                                              *)
FairSpec ==
    Spec /\ \A c \in Clients : WF_vars(CallStep(c)) /\ WF_vars(NextPage(c))

-----------------------------------------------------------------------------
Answered(c) == pc[c] = "done" /\ reply[c].kind = "ok"

(* An answer is about one content that the path had while the call ran. A  *)
(* page is a slice of it, with its length, and truncated tells whether     *)
(* there is more, as long as the file was only replaced as a whole.  "A    *)
(* complete page includes a SHA-256 suitable for a later bounded replace": *)
(* a digest is that of such a content also when the file grew meanwhile.   *)
AnswerIsOfOneContent ==
    \A c \in Clients : Answered(c) =>
        /\ kinds \subseteq {"replace"} =>
              \E whole \in seen[c] :
                 /\ reply[c].total = Len(whole)
                 /\ reply[c].bytes =
                       SubSeq(whole, offset[c] + 1,
                              offset[c] + Len(reply[c].bytes))
                 /\ reply[c].truncated <=>
                       offset[c] + Len(reply[c].bytes) < Len(whole)
        /\ "rewrite" \notin kinds =>
              reply[c].digest \in seen[c] \cup {None}

(* Pages that are joined give the file, unless it changed in between.      *)
PagesJoin ==
    \A c \in Clients :
        Answered(c) /\ ~reply[c].truncated /\ changes = 0 => view[c] = Content

(* Stale or mixed pages never lead to a lost update outside the interval   *)
(* the tool leaves open, from the last check of the digest to the rename.  *)
(* A replacement under a digest from read replaces the bytes its client    *)
(* has in hand if the path kept one content in that interval, by whatever  *)
(* means others have changed it before; and if others write within it,     *)
(* only what they write there is lost, because the client had in hand what *)
(* the path held in it.  (A rewrite in place during the check may give it  *)
(* bytes that never were in the file together.)                            *)
NoLostUpdate ==
    [][\A c \in Clients : Rename(c) =>
         /\ seen[c] = {Content} => view[c] = Content
         /\ "rewrite" \notin kinds => view[c] \in seen[c]]_vars

(* Following next_offset comes to an end. *)
PagingEnds == \A c \in Clients : pc[c] = "opening" ~> Finished(c)

=============================================================================
