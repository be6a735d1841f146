---------------------------- MODULE Read_proofs ----------------------------
(***************************************************************************)
(* Proofs about the read tool, for every number of clients, every bound of *)
(* a page, every length of the file and every number of changes to it.     *)
(***************************************************************************)
EXTENDS Read, SequenceTheorems, TLAPS

-----------------------------------------------------------------------------
(***************************************************************************)
(* The inductive invariant.                                                *)
(***************************************************************************)

(* The part stands in the whole, behind so many bytes. *)
Slice(part, whole, from) ==
    /\ from + Len(part) <= Len(whole)
    /\ \A i \in 1 .. Len(part) : part[i] = whole[from + i]

Byte == Nat \X Nat
Answers == [kind : {"none", "problem", "definitive", "canceled", "ok"},
            bytes : Seq(Byte), total : Nat, truncated : BOOLEAN, next : Nat,
            digest : Seq(Byte) \cup {None}]

Places == {"idle", "opening", "statting", "reading", "checking", "done",
           "verifying", "renaming"}

TypeOK ==
    /\ changes \in 0 .. MaxChanges /\ current \in 0 .. MaxChanges
    /\ files \in [0 .. MaxChanges -> Seq(Byte)]
    /\ pc \in [Clients -> Places]
    /\ ctxDone \in [Clients -> BOOLEAN]
    /\ offset \in [Clients -> Nat] /\ limit \in [Clients -> Nat]
    /\ handle \in [Clients -> 0 .. MaxChanges] /\ size \in [Clients -> Nat]
    /\ data \in [Clients -> Seq(Byte)]
    /\ reply \in [Clients -> Answers]
    /\ view \in [Clients -> Seq(Byte)]
    /\ seen \in [Clients -> SUBSET Seq(Byte)]

(* A file that was not installed yet has no name and no reader. *)
FileInv ==
    /\ current <= changes
    /\ \A f \in 0 .. MaxChanges : Len(files[f]) <= MaxLength
    /\ changes = 0 => kinds = {}

(* The file behind a handle is one the path had since it was opened, also  *)
(* when it has another name or none by now.                                *)
File(c) == files[handle[c]]
HandleInv(c) ==
    pc[c] \in {"statting", "reading", "checking", "verifying"} =>
        handle[c] <= changes /\ File(c) \in seen[c]

(* What was read is a slice of that file, unless it was rewritten; its     *)
(* size was that of a prefix of it, and still is if nobody appended.       *)
DataInv(c) ==
    /\ pc[c] \in {"opening", "statting"} => data[c] = <<>>
    /\ pc[c] \in {"reading", "checking"} =>
          /\ offset[c] + Len(data[c]) <= MaxLength
          /\ Len(data[c]) <= limit[c] + 1
          /\ kinds \subseteq {"replace"} => size[c] = Len(File(c))
          /\ "rewrite" \notin kinds =>
                /\ Slice(data[c], File(c), offset[c])
                /\ \E old \in seen[c] : Len(old) = size[c] /\ Slice(old, File(c), 0)
    /\ pc[c] = "checking" /\ kinds \subseteq {"replace"} /\ ~Truncated(c) =>
          offset[c] + Len(data[c]) = Len(File(c))

(* The pages of a client are as long as the offset they have come to. *)
ViewInv(c) ==
    /\ pc[c] \in {"opening", "statting", "reading", "checking"} =>
          /\ Len(view[c]) = offset[c]
          /\ changes = 0 => Slice(view[c], Content, 0)
    /\ Continues(c) =>
          /\ Len(view[c]) = reply[c].next
          /\ changes = 0 => Slice(view[c], Content, 0)
    /\ pc[c] = "done" /\ reply[c].digest # None => view[c] = reply[c].digest

AnswerInv(c) ==
    Answered(c) =>
        /\ kinds \subseteq {"replace"} =>
              \E whole \in seen[c] :
                 /\ reply[c].total = Len(whole)
                 /\ Slice(reply[c].bytes, whole, offset[c])
                 /\ reply[c].truncated <=>
                       offset[c] + Len(reply[c].bytes) < Len(whole)
        /\ "rewrite" \notin kinds => reply[c].digest \in seen[c] \cup {None}
        /\ ~reply[c].truncated /\ changes = 0 => view[c] = Content

(* A replacement hashes what the path has, unless it is rewritten or       *)
(* replaced meanwhile; once the digest was compared, what the client has   *)
(* in hand is what the path had then.                                      *)
CheckInv(c) ==
    /\ pc[c] \in {"verifying", "renaming"} =>
          view[c] = reply[c].digest /\ Content \in seen[c]
    /\ pc[c] = "verifying" =>
          /\ offset[c] = 0
          /\ seen[c] = {File(c)} \/ "rewrite" \notin kinds =>
                Slice(data[c], File(c), 0)
    /\ pc[c] = "renaming" =>
          /\ seen[c] = {Content} => view[c] = Content
          /\ "rewrite" \notin kinds => view[c] \in seen[c]

ClientInv(c) ==
    /\ HandleInv(c) /\ DataInv(c) /\ ViewInv(c)
    /\ AnswerInv(c) /\ CheckInv(c)
Inv == TypeOK /\ FileInv /\ \A c \in Clients : ClientInv(c)

-----------------------------------------------------------------------------
(***************************************************************************)
(* Slices.                                                                 *)
(***************************************************************************)

(* A part of a sequence is a sequence. *)
LEMMA PartOf ==
    ASSUME NEW w \in Seq(Byte), NEW m \in Nat \ {0}, NEW n \in Nat, n <= Len(w)
    PROVE  /\ SubSeq(w, m, n) \in Seq(Byte)
           /\ Len(SubSeq(w, m, n)) = IF m <= n THEN n - m + 1 ELSE 0
           /\ \A i \in 1 .. n - m + 1 : SubSeq(w, m, n)[i] = w[m + i - 1]
  <1>1. Len(w) \in Nat /\ \A i \in 1 .. Len(w) : w[i] \in Byte
    BY LenProperties
  <1>2. \A i \in m .. n : w[i] \in Byte
    BY <1>1
  <1> HIDE DEF Byte
  <1> QED BY <1>2, SubSeqProperties

(* Nothing is a slice of everything, and everything is one of itself. *)
LEMMA SliceEnds ==
    ASSUME NEW w \in Seq(Byte), NEW k \in Nat, k <= Len(w)
    PROVE  Slice(<<>>, w, k) /\ Slice(w, w, 0)
  <1>1. Len(w) \in Nat BY LenProperties
  <1>2. Len(<<>>) = 0 BY EmptySeq
  <1> QED BY <1>1, <1>2 DEF Slice

(* What is behind a slice, and the slice with so much more of it. *)
Behind(w, p, k) == SubSeq(w, k + Len(p) + 1, Len(w))
ReadOn(w, p, k, n) == p \o SubSeq(Behind(w, p, k), 1, n)

(* Reading on makes a slice longer. *)
LEMMA SliceGrows ==
    ASSUME NEW w \in Seq(Byte), NEW p \in Seq(Byte), NEW k \in Nat,
           NEW n \in 1 .. Len(Behind(w, p, k))
    PROVE  /\ ReadOn(w, p, k, n) \in Seq(Byte)
           /\ Len(ReadOn(w, p, k, n)) = Len(p) + n
           /\ k + Len(p) + n <= Len(w)
           /\ Slice(p, w, k) => Slice(ReadOn(w, p, k, n), w, k)
  <1>1. Len(w) \in Nat /\ Len(p) \in Nat
    BY LenProperties
  <1> DEFINE from == k + Len(p)
             rest == Behind(w, p, k)
  <1>2. /\ rest \in Seq(Byte)
        /\ Len(rest) = IF from + 1 <= Len(w) THEN Len(w) - (from + 1) + 1 ELSE 0
        /\ \A i \in 1 .. Len(w) - (from + 1) + 1 :
              rest[i] = w[(from + 1) + i - 1]
    <2> DEFINE m == from + 1
    <2>1. m \in Nat \ {0} /\ Len(w) <= Len(w) BY <1>1
    <2>2. rest = SubSeq(w, m, Len(w)) BY DEF Behind
    <2> HIDE DEF m, rest
    <2>3. /\ rest \in Seq(Byte)
          /\ Len(rest) = IF m <= Len(w) THEN Len(w) - m + 1 ELSE 0
          /\ \A i \in 1 .. Len(w) - m + 1 : rest[i] = w[m + i - 1]
      BY <1>1, <2>1, <2>2, PartOf
    <2> QED BY <2>3 DEF m
  <1> HIDE DEF rest
  <1>3. /\ Len(rest) = Len(w) - from /\ n \in Nat /\ n <= Len(rest)
        /\ \A i \in 1 .. Len(rest) : rest[i] = w[from + i]
    BY <1>1, <1>2 DEF rest
  <1> DEFINE more == SubSeq(rest, 1, n)
  <1>4. /\ more \in Seq(Byte) /\ Len(more) = n
        /\ \A i \in 1 .. n : more[i] = rest[i]
    BY <1>2, <1>3, PartOf
  <1> HIDE DEF more
  <1>5. /\ p \o more \in Seq(Byte) /\ Len(p \o more) = Len(p) + n
        /\ \A i \in 1 .. Len(p) + n :
              (p \o more)[i] = IF i <= Len(p) THEN p[i] ELSE more[i - Len(p)]
    BY <1>4, ConcatProperties
  <1>6. k + Len(p) + n <= Len(w)
    BY <1>1, <1>3
  <1>7. ASSUME Slice(p, w, k), NEW i \in 1 .. Len(p) + n
        PROVE  (p \o more)[i] = w[k + i]
    <2>1. CASE i <= Len(p)
      <3>1. i \in 1 .. Len(p) BY <1>1, <1>3, <2>1
      <3> QED BY <1>5, <1>7, <3>1 DEF Slice
    <2>2. CASE ~(i <= Len(p))
      <3>1. i - Len(p) \in 1 .. n /\ from + (i - Len(p)) = k + i
        BY <1>1, <1>3, <2>2
      <3>2. i - Len(p) \in 1 .. Len(rest) BY <1>3, <3>1
      <3>3. (p \o more)[i] = more[i - Len(p)] BY <1>5, <2>2
      <3> QED BY <1>3, <1>4, <3>1, <3>2, <3>3
    <2> QED BY <2>1, <2>2
  <1>8. Slice(p, w, k) => Slice(p \o more, w, k)
    BY <1>1, <1>3, <1>5, <1>6, <1>7 DEF Slice
  <1> QED BY <1>5, <1>6, <1>8 DEF more, rest, ReadOn

(* A page is a prefix of what was read. *)
LEMMA SliceCut ==
    ASSUME NEW w \in Seq(Byte), NEW p \in Seq(Byte), NEW k \in Nat,
           NEW n \in Nat, n <= Len(p)
    PROVE  /\ SubSeq(p, 1, n) \in Seq(Byte) /\ Len(SubSeq(p, 1, n)) = n
           /\ Slice(p, w, k) => Slice(SubSeq(p, 1, n), w, k)
  <1>1. Len(w) \in Nat /\ Len(p) \in Nat
    BY LenProperties
  <1>2. /\ SubSeq(p, 1, n) \in Seq(Byte) /\ Len(SubSeq(p, 1, n)) = n
        /\ \A i \in 1 .. n : SubSeq(p, 1, n)[i] = p[i]
    BY PartOf
  <1> QED BY <1>1, <1>2 DEF Slice

(* Slices that follow each other make one. *)
LEMMA SliceJoin ==
    ASSUME NEW w \in Seq(Byte), NEW p \in Seq(Byte), NEW q \in Seq(Byte)
    PROVE  /\ p \o q \in Seq(Byte) /\ Len(p \o q) = Len(p) + Len(q)
           /\ Slice(p, w, 0) /\ Slice(q, w, Len(p)) => Slice(p \o q, w, 0)
  <1>1. Len(w) \in Nat /\ Len(p) \in Nat /\ Len(q) \in Nat
    BY LenProperties
  <1>2. /\ p \o q \in Seq(Byte) /\ Len(p \o q) = Len(p) + Len(q)
        /\ \A i \in 1 .. Len(p) + Len(q) :
              (p \o q)[i] = IF i <= Len(p) THEN p[i] ELSE q[i - Len(p)]
    BY ConcatProperties
  <1>3. ASSUME Slice(p, w, 0), Slice(q, w, Len(p)) PROVE Slice(p \o q, w, 0)
    <2>1. ASSUME NEW i \in 1 .. Len(p) + Len(q) PROVE (p \o q)[i] = w[0 + i]
      <3>1. CASE i <= Len(p)
        <4>1. i \in 1 .. Len(p) BY <1>1, <3>1
        <4> QED BY <1>2, <1>3, <4>1 DEF Slice
      <3>2. CASE ~(i <= Len(p))
        <4>1. i - Len(p) \in 1 .. Len(q) /\ Len(p) + (i - Len(p)) = 0 + i
          BY <1>1, <3>2
        <4>2. (p \o q)[i] = q[i - Len(p)] BY <1>2, <3>2
        <4> QED BY <1>3, <4>1, <4>2 DEF Slice
      <3> QED BY <3>1, <3>2
    <2> QED BY <1>1, <1>2, <1>3, <2>1 DEF Slice
  <1> QED BY <1>2, <1>3

(* A longer file has the slices of the shorter one. *)
LEMMA SliceStays ==
    ASSUME NEW w \in Seq(Byte), NEW p \in Seq(Byte), NEW q \in Seq(Byte),
           NEW k \in Nat, Slice(p, w, k)
    PROVE  Slice(p, w \o q, k)
  <1>1. Len(w) \in Nat /\ Len(p) \in Nat /\ Len(q) \in Nat
    BY LenProperties
  <1>2. /\ Len(w \o q) = Len(w) + Len(q)
        /\ \A i \in 1 .. Len(w) + Len(q) :
              (w \o q)[i] = IF i <= Len(w) THEN w[i] ELSE q[i - Len(w)]
    BY ConcatProperties
  <1>3. k + Len(p) <= Len(w) + Len(q) BY <1>1 DEF Slice
  <1>4. ASSUME NEW i \in 1 .. Len(p) PROVE p[i] = (w \o q)[k + i]
    <2>1. k + i \in 1 .. Len(w) + Len(q) /\ k + i <= Len(w)
      BY <1>1 DEF Slice
    <2> QED BY <1>2, <2>1 DEF Slice
  <1> QED BY <1>2, <1>3, <1>4 DEF Slice

(* There is one slice of a length at a place. *)
LEMMA SliceUnique ==
    ASSUME NEW w \in Seq(Byte), NEW p \in Seq(Byte), NEW q \in Seq(Byte),
           NEW k \in Nat, Slice(p, w, k)
    PROVE  /\ Slice(q, w, k) /\ Len(p) = Len(q) => p = q
           /\ p = SubSeq(w, k + 1, k + Len(p))
  <1>1. Len(w) \in Nat /\ Len(p) \in Nat /\ k + Len(p) <= Len(w)
    BY LenProperties DEF Slice
  <1>2. ASSUME Slice(q, w, k), Len(p) = Len(q) PROVE p = q
    <2>1. \A i \in 1 .. Len(p) : p[i] = q[i]
      BY <1>2 DEF Slice
    <2> HIDE DEF Byte
    <2> QED BY <1>2, <2>1, SeqEqual
  <1> DEFINE m == k + 1
             n == k + Len(p)
             s == SubSeq(w, m, n)
  <1>3. m \in Nat \ {0} /\ n \in Nat /\ n <= Len(w)
    BY <1>1
  <1>4. /\ s \in Seq(Byte) /\ Len(s) = Len(p)
        /\ \A i \in 1 .. Len(p) : s[i] = w[k + i]
    <2> HIDE DEF m, n
    <2>1. /\ s \in Seq(Byte) /\ Len(s) = IF m <= n THEN n - m + 1 ELSE 0
          /\ \A i \in 1 .. n - m + 1 : s[i] = w[m + i - 1]
      BY <1>3, PartOf
    <2> HIDE DEF s
    <2> QED BY <1>1, <2>1 DEF m, n
  <1> HIDE DEF s
  <1>5. \A i \in 1 .. Len(p) : p[i] = s[i]
    BY <1>4 DEF Slice
  <1>6. p = s
    <2> HIDE DEF Byte
    <2> QED BY <1>4, <1>5, SeqEqual
  <1> QED BY <1>2, <1>6 DEF s

(* What is written is a file. *)
LEMMA BytesType ==
    ASSUME NEW change \in Nat, NEW from \in Nat, NEW to \in Nat, from <= to
    PROVE  /\ Bytes(change, from, to) \in Seq(Byte)
           /\ Len(Bytes(change, from, to)) = to - from
  <1> DEFINE b == Bytes(change, from, to)
             n == to - from
  <1>1. n \in Nat OBVIOUS
  <1>2. b \in [1 .. n -> Byte] BY DEF Bytes, Byte
  <1> HIDE DEF b, n, Byte
  <1>3. b \in Seq(Byte) BY <1>1, <1>2, SeqDef
  <1>4. Len(b) = n BY <1>1, <1>2, <1>3, LenProperties
  <1> QED BY <1>3, <1>4 DEF b, n

-----------------------------------------------------------------------------
(***************************************************************************)
(* Every step of a call preserves the invariant.                           *)
(***************************************************************************)

(* What does not concern a client leaves its invariant alone. *)
LEMMA Frame ==
    ASSUME NEW d \in Clients, ClientInv(d), UNCHANGED world,
           pc'[d] = pc[d], offset'[d] = offset[d], limit'[d] = limit[d],
           handle'[d] = handle[d], size'[d] = size[d], data'[d] = data[d],
           reply'[d] = reply[d], view'[d] = view[d], seen'[d] = seen[d]
    PROVE  ClientInv(d)'
  <1>1. HandleInv(d)' BY DEF ClientInv, HandleInv, File, world
  <1>2. DataInv(d)' BY DEF ClientInv, DataInv, File, Truncated, world
  <1>3. ViewInv(d)' BY DEF ClientInv, ViewInv, Continues, Content, world
  <1>4. AnswerInv(d)' BY DEF ClientInv, AnswerInv, Answered, Content, world
  <1>5. CheckInv(d)' BY DEF ClientInv, CheckInv, File, Content, world
  <1> QED BY <1>1, <1>2, <1>3, <1>4, <1>5 DEF ClientInv

(* A refusal carries nothing. *)
LEMMA Refusals ==
    /\ NoAnswer \in Answers
    /\ \A kind \in {"problem", "definitive", "canceled"} :
          /\ Answer(kind) \in Answers /\ Answer(kind).kind = kind
          /\ ~Answer(kind).truncated /\ Answer(kind).digest = None
  <1>1. <<>> \in Seq(Byte) BY EmptySeq
  <1> HIDE DEF Byte
  <1> QED BY <1>1 DEF NoAnswer, Answer, Answers

(* A refused call has no obligations left. *)
LEMMA RefusedInv ==
    ASSUME NEW c \in Clients, NEW kind \in {"problem", "definitive", "canceled"},
           pc'[c] = "done", reply'[c] = Answer(kind)
    PROVE  ClientInv(c)'
  <1>1. reply'[c].kind # "ok" /\ reply'[c].digest = None
    BY Refusals
  <1> QED BY <1>1 DEF ClientInv, HandleInv, DataInv, ViewInv, AnswerInv,
             CheckInv, Continues, Answered

(* A call begins at the offset its client's pages have come to. *)
LEMMA ExecuteStep ==
    ASSUME Inv, NEW c \in Clients, NEW from \in Nat, Execute(c, from),
           view' \in [Clients -> Seq(Byte)], Len(view'[c]) = from,
           changes = 0 => Slice(view'[c], Content, 0),
           \A d \in Clients \ {c} : view'[d] = view[d]
    PROVE  Inv'
  <1> USE DEF Inv
  <1>1. PICK asked \in 0 .. MaxReadBytes + 1 :
          /\ limit' = [limit EXCEPT ![c] = Limit(asked)]
          /\ \/ \E kind \in {"problem", "definitive", "canceled"} :
                   Return(c, Answer(kind))
             \/ /\ Goto(c, "opening")
                /\ reply' = [reply EXCEPT ![c] = NoAnswer]
    BY DEF Execute
  <1>2. /\ offset' = [offset EXCEPT ![c] = from]
        /\ data' = [data EXCEPT ![c] = <<>>]
        /\ seen' = [seen EXCEPT ![c] = {}]
        /\ ctxDone' = [ctxDone EXCEPT ![c] = FALSE]
        /\ UNCHANGED <<current, files, changes, kinds, handle, size>>
    BY DEF Execute, world
  <1>3. \/ /\ pc' = [pc EXCEPT ![c] = "opening"]
           /\ reply' = [reply EXCEPT ![c] = NoAnswer]
        \/ \E kind \in {"problem", "definitive", "canceled"} :
              /\ pc' = [pc EXCEPT ![c] = "done"]
              /\ reply' = [reply EXCEPT ![c] = Answer(kind)]
    BY <1>1 DEF Goto, Return
  <1>4. TypeOK'
    <2>1. Limit(asked) \in Nat BY ReadAssumption DEF Limit
    <2>2. <<>> \in Seq(Byte) BY EmptySeq
    <2>3. reply' \in [Clients -> Answers]
      BY <1>3, Refusals DEF TypeOK
    <2>4. pc' \in [Clients -> Places]
      BY <1>3 DEF TypeOK, Places
    <2> QED BY <1>1, <1>2, <2>1, <2>2, <2>3, <2>4 DEF TypeOK
  <1>5. FileInv' BY <1>2 DEF FileInv
  <1>6. ASSUME NEW d \in Clients, d # c PROVE ClientInv(d)'
    <2>1. pc'[d] = pc[d] /\ reply'[d] = reply[d]
      BY <1>3, <1>6 DEF TypeOK
    <2>2. /\ offset'[d] = offset[d] /\ limit'[d] = limit[d] /\ seen'[d] = seen[d]
          /\ handle'[d] = handle[d] /\ size'[d] = size[d] /\ data'[d] = data[d]
          /\ view'[d] = view[d]
      BY <1>1, <1>2, <1>6 DEF TypeOK
    <2> QED BY <1>2, <2>1, <2>2, Frame DEF world
  <1>7. ClientInv(c)'
    <2>1. CASE pc'[c] = "opening"
      <3>1. data'[c] = <<>> /\ offset'[c] = from /\ Content' = Content
            /\ changes' = changes
        BY <1>2 DEF TypeOK, Content
      <3> QED BY <2>1, <3>1 DEF ClientInv, HandleInv, DataInv, ViewInv, AnswerInv,
                 CheckInv, Continues, Answered
    <2>2. CASE pc'[c] # "opening"
      <3>1. PICK kind \in {"problem", "definitive", "canceled"} :
              pc'[c] = "done" /\ reply'[c] = Answer(kind)
        BY <1>3, <2>2 DEF TypeOK
      <3> QED BY <3>1, RefusedInv
    <2> QED BY <2>1, <2>2
  <1> QED BY <1>4, <1>5, <1>6, <1>7

(* The first page is asked for. *)
LEMMA FirstPageStep == ASSUME Inv, NEW c \in Clients, FirstPage(c) PROVE Inv'
  <1>1. Execute(c, 0) /\ view' = [view EXCEPT ![c] = <<>>]
    BY DEF FirstPage
  <1>2. <<>> \in Seq(Byte) /\ Len(<<>>) = 0 /\ Content \in Seq(Byte)
    BY EmptySeq DEF Inv, TypeOK, Content
  <1>3. /\ view' \in [Clients -> Seq(Byte)] /\ view'[c] = <<>>
        /\ \A d \in Clients \ {c} : view'[d] = view[d]
    BY <1>1, <1>2 DEF Inv, TypeOK
  <1>4. Slice(<<>>, Content, 0)
    BY <1>2, LenProperties, SliceEnds
  <1> QED BY <1>1, <1>2, <1>3, <1>4, ExecuteStep

(* The next page is asked for where the last one ended. *)
LEMMA NextPageStep == ASSUME Inv, NEW c \in Clients, NextPage(c) PROVE Inv'
  <1>1. Continues(c) /\ Execute(c, reply[c].next) /\ view' = view
    BY DEF NextPage
  <1>2. view \in [Clients -> Seq(Byte)] /\ reply[c].next \in Nat
    BY DEF Inv, TypeOK, Answers
  <1>3. /\ Len(view[c]) = reply[c].next
        /\ changes = 0 => Slice(view[c], Content, 0)
    BY <1>1 DEF Inv, ClientInv, ViewInv
  <1> QED BY <1>1, <1>2, <1>3, ExecuteStep

(* The file is opened, and its content is the first that was seen. *)
LEMMA OpenStep == ASSUME Inv, NEW c \in Clients, Open(c) PROVE Inv'
  <1> USE DEF Inv
  <1>1. /\ pc[c] = "opening"
        /\ UNCHANGED <<current, files, changes, kinds, ctxDone, offset, limit,
                       size, data, view>>
        /\ \/ /\ reply' = [reply EXCEPT ![c] = Answer("problem")]
              /\ pc' = [pc EXCEPT ![c] = "done"] /\ UNCHANGED <<handle, seen>>
           \/ /\ handle' = [handle EXCEPT ![c] = current]
              /\ seen' = [seen EXCEPT ![c] = {Content}]
              /\ pc' = [pc EXCEPT ![c] = "statting"] /\ UNCHANGED reply
    BY DEF Open, Return, Goto, world
  <1>2. Content \in Seq(Byte) BY DEF TypeOK, Content
  <1>3. TypeOK'
    <2>1. reply' \in [Clients -> Answers] BY <1>1, Refusals DEF TypeOK
    <2>2. handle' \in [Clients -> 0 .. MaxChanges] BY <1>1 DEF TypeOK
    <2>3. seen' \in [Clients -> SUBSET Seq(Byte)]
      <3>1. {Content} \in SUBSET Seq(Byte) BY <1>2
      <3>2. seen' = seen \/ seen' = [seen EXCEPT ![c] = {Content}] BY <1>1
      <3> QED BY <3>1, <3>2 DEF TypeOK
    <2> QED BY <1>1, <2>1, <2>2, <2>3 DEF TypeOK, Places
  <1>4. FileInv' BY <1>1 DEF FileInv
  <1>5. ASSUME NEW d \in Clients, d # c PROVE ClientInv(d)'
    <2>1. /\ pc'[d] = pc[d] /\ reply'[d] = reply[d] /\ handle'[d] = handle[d]
          /\ seen'[d] = seen[d]
      BY <1>1, <1>5 DEF TypeOK
    <2> QED BY <1>1, <2>1, Frame DEF world
  <1>6. ClientInv(c)'
    <2>1. CASE pc'[c] = "statting"
      <3>1. /\ handle'[c] = current /\ seen'[c] = {Content}
        BY <1>1, <2>1 DEF TypeOK
      <3>2. HandleInv(c)'
        BY <1>1, <3>1 DEF HandleInv, File, Content, FileInv
      <3>3. DataInv(c)' BY <1>1, <2>1 DEF DataInv, ClientInv
      <3>4. ViewInv(c)'
        BY <1>1, <2>1 DEF ViewInv, ClientInv, Content, Continues
      <3>5. AnswerInv(c)' /\ CheckInv(c)' BY <2>1 DEF AnswerInv, Answered, CheckInv
      <3> QED BY <3>2, <3>3, <3>4, <3>5 DEF ClientInv
    <2>2. CASE pc'[c] # "statting"
      BY <1>1, <2>2, RefusedInv DEF TypeOK
    <2> QED BY <2>1, <2>2
  <1> QED BY <1>3, <1>4, <1>5, <1>6

(* The size is that of the file behind the handle. *)
LEMMA StatStep == ASSUME Inv, NEW c \in Clients, Stat(c) PROVE Inv'
  <1> USE DEF Inv
  <1>1. /\ pc[c] = "statting"
        /\ size' = [size EXCEPT ![c] = Len(File(c))]
        /\ UNCHANGED <<current, files, changes, kinds, ctxDone, offset, limit,
                       handle, data, view, seen>>
        /\ \/ /\ reply' = [reply EXCEPT ![c] = Answer("problem")]
              /\ pc' = [pc EXCEPT ![c] = "done"]
           \/ /\ offset[c] <= size'[c]
              /\ pc' = [pc EXCEPT ![c] = "reading"] /\ UNCHANGED reply
    BY DEF Stat, SizeOfHandle, File, Return, Goto, world
  <1>2. File(c) \in Seq(Byte) /\ Len(File(c)) <= MaxLength
    BY DEF TypeOK, File, FileInv
  <1>3. Len(File(c)) \in Nat BY <1>2, LenProperties
  <1>4. TypeOK'
    <2>1. reply' \in [Clients -> Answers] BY <1>1, Refusals DEF TypeOK
    <2> QED BY <1>1, <1>3, <2>1 DEF TypeOK, Places
  <1>5. FileInv' BY <1>1 DEF FileInv
  <1>6. ASSUME NEW d \in Clients, d # c PROVE ClientInv(d)'
    <2>1. pc'[d] = pc[d] /\ reply'[d] = reply[d] /\ size'[d] = size[d]
      BY <1>1, <1>6 DEF TypeOK
    <2> QED BY <1>1, <2>1, Frame DEF world
  <1>7. ClientInv(c)'
    <2>1. CASE pc'[c] = "reading"
      <3>1. /\ size'[c] = Len(File(c)) /\ offset[c] <= Len(File(c))
            /\ offset[c] \in Nat /\ limit[c] \in Nat /\ MaxLength \in Nat
        BY <1>1, <2>1, ReadAssumption DEF TypeOK
      <3>2. File(c) \in seen[c] /\ handle[c] <= changes
        BY <1>1 DEF HandleInv, ClientInv
      <3>3. data[c] = <<>> /\ Len(<<>>) = 0
        BY <1>1, EmptySeq DEF DataInv, ClientInv
      <3>4. Slice(<<>>, File(c), offset[c]) /\ Slice(File(c), File(c), 0)
        BY <1>2, <3>1, SliceEnds
      <3>5. File(c)' = File(c) BY <1>1 DEF File
      <3>6. HandleInv(c)'
        BY <1>1, <3>2, <3>5 DEF HandleInv
      <3>7. DataInv(c)'
        <4>1. offset[c] + 0 <= MaxLength /\ 0 <= limit[c] + 1
          BY <1>2, <1>3, <3>1
        <4> QED BY <1>1, <2>1, <3>1, <3>2, <3>3, <3>4, <3>5, <4>1 DEF DataInv
      <3>8. ViewInv(c)'
        BY <1>1, <2>1 DEF ViewInv, ClientInv, Content, Continues
      <3>9. AnswerInv(c)' /\ CheckInv(c)' BY <2>1 DEF AnswerInv, Answered, CheckInv
      <3> QED BY <3>6, <3>7, <3>8, <3>9 DEF ClientInv
    <2>2. CASE pc'[c] # "reading"
      BY <1>1, <2>2, RefusedInv DEF TypeOK
    <2> QED BY <2>1, <2>2
  <1> QED BY <1>4, <1>5, <1>6, <1>7

(* More is read, from behind what was read before. *)
LEMMA ReadSomeStep == ASSUME Inv, NEW c \in Clients, ReadSome(c) PROVE Inv'
  <1> USE DEF Inv
  <1>1. /\ pc[c] = "reading"
        /\ UNCHANGED <<current, files, changes, kinds, ctxDone, offset, limit,
                       handle, size, view, seen>>
    BY DEF ReadSome, world
  <1>2. CASE Return(c, Answer("problem")) /\ UNCHANGED data
    <2>1. /\ reply' = [reply EXCEPT ![c] = Answer("problem")]
          /\ pc' = [pc EXCEPT ![c] = "done"] /\ UNCHANGED data
      BY <1>2 DEF Return, Goto
    <2>2. TypeOK'
      <3>1. reply' \in [Clients -> Answers] BY <2>1, Refusals DEF TypeOK
      <3> QED BY <1>1, <2>1, <3>1 DEF TypeOK, Places
    <2>3. FileInv' BY <1>1 DEF FileInv
    <2>4. ASSUME NEW d \in Clients, d # c PROVE ClientInv(d)'
      <3>1. pc'[d] = pc[d] /\ reply'[d] = reply[d]
        BY <2>1, <2>4 DEF TypeOK
      <3> QED BY <1>1, <2>1, <3>1, Frame DEF world
    <2>5. ClientInv(c)' BY <2>1, RefusedInv DEF TypeOK
    <2> QED BY <2>2, <2>3, <2>4, <2>5
  <1>3. CASE ~(Return(c, Answer("problem")) /\ UNCHANGED data)
    <2>1. PICK n \in 1 .. Len(Rest(c)) :
            /\ n <= Wanted(c)
            /\ data' = [data EXCEPT ![c] = @ \o SubSeq(Rest(c), 1, n)]
            /\ UNCHANGED <<pc, reply>>
      BY <1>3 DEF ReadSome
    <2> DEFINE new == data[c] \o SubSeq(Rest(c), 1, n)
    <2>2. /\ File(c) \in Seq(Byte) /\ Len(File(c)) <= MaxLength
          /\ data[c] \in Seq(Byte) /\ offset[c] \in Nat /\ limit[c] \in Nat
      BY DEF TypeOK, File, FileInv
    <2>3. Rest(c) = SubSeq(File(c), offset[c] + Len(data[c]) + 1, Len(File(c)))
      BY DEF Rest, File
    <2>4. /\ new \in Seq(Byte) /\ Len(new) = Len(data[c]) + n
          /\ offset[c] + Len(data[c]) + n <= Len(File(c))
          /\ Slice(data[c], File(c), offset[c]) => Slice(new, File(c), offset[c])
      <3>1. /\ Rest(c) = Behind(File(c), data[c], offset[c])
            /\ new = ReadOn(File(c), data[c], offset[c], n)
        BY <2>3 DEF Behind, ReadOn
      <3> HIDE DEF new
      <3> QED BY <2>2, <3>1, SliceGrows
    <2> HIDE DEF new
    <2>5. data' = [data EXCEPT ![c] = new] BY <2>1 DEF new
    <2>6. TypeOK' BY <1>1, <2>1, <2>4, <2>5 DEF TypeOK
    <2>7. FileInv' BY <1>1 DEF FileInv
    <2>8. ASSUME NEW d \in Clients, d # c PROVE ClientInv(d)'
      <3>1. data'[d] = data[d] BY <2>5, <2>8 DEF TypeOK
      <3> QED BY <1>1, <2>1, <3>1, Frame DEF world
    <2>9. ClientInv(c)'
      <3>1. data'[c] = new /\ pc'[c] = "reading" /\ File(c)' = File(c)
        BY <1>1, <2>1, <2>5 DEF TypeOK, File
      <3>2. HandleInv(c)' BY <1>1, <2>1 DEF HandleInv, ClientInv, File
      <3>3. DataInv(c)'
        <4>1. /\ kinds \subseteq {"replace"} => size[c] = Len(File(c))
              /\ "rewrite" \notin kinds =>
                    /\ Slice(data[c], File(c), offset[c])
                    /\ \E old \in seen[c] :
                          Len(old) = size[c] /\ Slice(old, File(c), 0)
          BY <1>1 DEF DataInv, ClientInv
        <4>2. Len(data[c]) \in Nat /\ Len(File(c)) \in Nat /\ n \in Nat
          BY <2>2, LenProperties
        <4>3. offset[c] + Len(new) <= MaxLength /\ Len(new) <= limit[c] + 1
          <5> DEFINE o == offset[c]
                     l == limit[c]
                     had == Len(data[c])
                     whole == Len(File(c))
                     has == Len(new)
          <5>1. /\ n \in Nat /\ n <= l + 1 - had /\ MaxLength \in Nat
                /\ o \in Nat /\ l \in Nat /\ had \in Nat /\ whole \in Nat
                /\ whole <= MaxLength /\ has = had + n /\ o + had + n <= whole
            BY <2>1, <2>2, <2>4, <4>2, ReadAssumption DEF Wanted
          <5> HIDE DEF Inv, o, l, had, whole, has
          <5>2. o + has <= MaxLength /\ has <= l + 1 BY <5>1
          <5> QED BY <5>2 DEF o, l, has
        <4> QED BY <1>1, <2>4, <3>1, <4>1, <4>3 DEF DataInv
      <3>4. ViewInv(c)'
        BY <1>1, <2>1 DEF ViewInv, ClientInv, Content, Continues
      <3>5. AnswerInv(c)' /\ CheckInv(c)' BY <3>1 DEF AnswerInv, Answered, CheckInv
      <3> QED BY <3>2, <3>3, <3>4, <3>5 DEF ClientInv
    <2> QED BY <2>6, <2>7, <2>8, <2>9
  <1> QED BY <1>2, <1>3

(* The reading ends: short of the limit it was the end of the file. *)
LEMMA EndOfFileStep == ASSUME Inv, NEW c \in Clients, EndOfFile(c) PROVE Inv'
  <1> USE DEF Inv
  <1>1. /\ pc[c] = "reading" /\ (Wanted(c) = 0 \/ Rest(c) = <<>>)
        /\ pc' = [pc EXCEPT ![c] = "checking"]
        /\ UNCHANGED <<current, files, changes, kinds, ctxDone, offset, limit,
                       handle, size, data, reply, view, seen>>
    BY DEF EndOfFile, Goto, world, call
  <1>2. TypeOK' BY <1>1 DEF TypeOK, Places
  <1>3. FileInv' BY <1>1 DEF FileInv
  <1>4. ASSUME NEW d \in Clients, d # c PROVE ClientInv(d)'
    <2>1. pc'[d] = pc[d] BY <1>1, <1>4 DEF TypeOK
    <2> QED BY <1>1, <2>1, Frame DEF world
  <1>5. ClientInv(c)'
    <2>1. pc'[c] = "checking" /\ File(c)' = File(c) BY <1>1 DEF TypeOK, File
    <2>2. HandleInv(c)' BY <1>1, <2>1 DEF HandleInv, ClientInv
    <2>3. DataInv(c)'
      <3>1. /\ File(c) \in Seq(Byte) /\ data[c] \in Seq(Byte)
            /\ offset[c] \in Nat /\ limit[c] \in Nat
        BY DEF TypeOK, File
      <3>2. Len(data[c]) \in Nat /\ Len(File(c)) \in Nat
        BY <3>1, LenProperties
      <3>3. ASSUME kinds \subseteq {"replace"}, ~Truncated(c)
            PROVE  offset[c] + Len(data[c]) = Len(File(c))
        <4>1. Slice(data[c], File(c), offset[c])
          BY <1>1, <3>3 DEF DataInv, ClientInv
        <4>2. offset[c] + Len(data[c]) <= Len(File(c)) BY <4>1 DEF Slice
        <4>3. Rest(c) = <<>>
          BY <1>1, <3>1, <3>2, <3>3 DEF Truncated, Wanted
        <4> DEFINE m == offset[c] + Len(data[c]) + 1
        <4>4. Len(Rest(c)) = IF m <= Len(File(c)) THEN Len(File(c)) - m + 1 ELSE 0
          <5>1. m \in Nat \ {0} BY <3>1, <3>2
          <5>2. Rest(c) = SubSeq(File(c), m, Len(File(c))) BY DEF Rest, File
          <5> HIDE DEF m
          <5> QED BY <3>1, <3>2, <5>1, <5>2, PartOf
        <4>5. Len(Rest(c)) = 0 BY <4>3, EmptySeq
        <4> QED BY <3>1, <3>2, <4>2, <4>4, <4>5
      <3>4. Truncated(c)' = Truncated(c) BY <1>1 DEF Truncated
      <3> QED BY <1>1, <2>1, <3>3, <3>4 DEF DataInv, ClientInv
    <2>4. ViewInv(c)'
      BY <1>1, <2>1 DEF ViewInv, ClientInv, Content, Continues
    <2>5. AnswerInv(c)' /\ CheckInv(c)' BY <2>1 DEF AnswerInv, Answered, CheckInv
    <2> QED BY <2>2, <2>3, <2>4, <2>5 DEF ClientInv
  <1> QED BY <1>2, <1>3, <1>4, <1>5

(* A context that ends is noticed later. *)
LEMMA CancelStep == ASSUME Inv, NEW c \in Clients, Cancel(c) PROVE Inv'
  <1> USE DEF Inv
  <1>1. /\ ctxDone' = [ctxDone EXCEPT ![c] = TRUE]
        /\ UNCHANGED <<current, files, changes, kinds, pc, offset, limit, handle,
                       size, data, reply, view, seen>>
    BY DEF Cancel, world
  <1>2. TypeOK' BY <1>1 DEF TypeOK
  <1>3. FileInv' BY <1>1 DEF FileInv
  <1>4. \A d \in Clients : ClientInv(d)' BY <1>1, Frame DEF world
  <1> QED BY <1>2, <1>3, <1>4

(* A client without a call has no obligations. *)
LEMMA IdleInv ==
    ASSUME NEW c \in Clients, pc'[c] = "idle" PROVE ClientInv(c)'
  BY DEF ClientInv, HandleInv, DataInv, ViewInv, AnswerInv, CheckInv, Continues,
         Answered

(* A client that is finished starts over. *)
LEMMA StartOverStep == ASSUME Inv, NEW c \in Clients, StartOver(c) PROVE Inv'
  <1> USE DEF Inv
  <1>1. /\ pc' = [pc EXCEPT ![c] = "idle"]
        /\ UNCHANGED <<current, files, changes, kinds, ctxDone, offset, limit,
                       handle, size, data, reply, view, seen>>
    BY DEF StartOver, Goto, world, call
  <1>2. TypeOK' BY <1>1 DEF TypeOK, Places
  <1>3. FileInv' BY <1>1 DEF FileInv
  <1>4. ASSUME NEW d \in Clients, d # c PROVE ClientInv(d)'
    <2>1. pc'[d] = pc[d] BY <1>1, <1>4 DEF TypeOK
    <2> QED BY <1>1, <2>1, Frame DEF world
  <1>5. ClientInv(c)' BY <1>1, IdleInv DEF TypeOK
  <1> QED BY <1>2, <1>3, <1>4, <1>5

(* The target is opened for its digest. *)
LEMMA OpenTargetStep == ASSUME Inv, NEW c \in Clients, OpenTarget(c) PROVE Inv'
  <1> USE DEF Inv
  <1>1. /\ UNCHANGED <<current, files, changes, kinds, ctxDone, limit, size, reply,
                       view>>
        /\ handle' = [handle EXCEPT ![c] = current]
        /\ seen' = [seen EXCEPT ![c] = {Content}]
        /\ offset' = [offset EXCEPT ![c] = 0]
        /\ data' = [data EXCEPT ![c] = <<>>]
        /\ pc' = [pc EXCEPT ![c] = "verifying"]
    BY DEF OpenTarget, Goto, world
  <1>2. Content \in Seq(Byte) /\ <<>> \in Seq(Byte)
    BY EmptySeq DEF TypeOK, Content
  <1>3. TypeOK'
    <2>1. {Content} \in SUBSET Seq(Byte) BY <1>2
    <2>2. seen' \in [Clients -> SUBSET Seq(Byte)] BY <1>1, <2>1 DEF TypeOK
    <2>3. data' \in [Clients -> Seq(Byte)] BY <1>1, <1>2 DEF TypeOK
    <2>4. pc' \in [Clients -> Places] BY <1>1 DEF TypeOK, Places
    <2> QED BY <1>1, <2>2, <2>3, <2>4 DEF TypeOK
  <1>4. FileInv' BY <1>1 DEF FileInv
  <1>5. ASSUME NEW d \in Clients, d # c PROVE ClientInv(d)'
    <2>1. /\ pc'[d] = pc[d] /\ handle'[d] = handle[d] /\ seen'[d] = seen[d]
          /\ offset'[d] = offset[d] /\ data'[d] = data[d]
      BY <1>1, <1>5 DEF TypeOK
    <2> QED BY <1>1, <2>1, Frame DEF world
  <1>6. ClientInv(c)'
    <2>1. /\ pc'[c] = "verifying" /\ handle'[c] = current /\ offset'[c] = 0
          /\ seen'[c] = {Content} /\ data'[c] = <<>>
      BY <1>1 DEF TypeOK
    <2>2. File(c)' = Content /\ Content' = Content
      BY <1>1, <2>1 DEF File, Content
    <2>3. HandleInv(c)' BY <1>1, <2>1, <2>2 DEF HandleInv, FileInv
    <2>4. DataInv(c)' /\ ViewInv(c)' /\ AnswerInv(c)'
      BY <2>1 DEF DataInv, ViewInv, AnswerInv, Continues, Answered
    <2>5. view[c] = reply[c].digest
      BY DEF OpenTarget, Finished, ClientInv, ViewInv, CheckInv
    <2>6. Slice(<<>>, Content, 0)
      BY <1>2, LenProperties, SliceEnds
    <2>7. CheckInv(c)' BY <1>1, <2>1, <2>2, <2>5, <2>6 DEF CheckInv
    <2> QED BY <2>3, <2>4, <2>7 DEF ClientInv
  <1> QED BY <1>3, <1>4, <1>5, <1>6

(* More of the target is hashed. *)
LEMMA HashSomeStep == ASSUME Inv, NEW c \in Clients, HashSome(c) PROVE Inv'
  <1> USE DEF Inv
  <1>1. /\ pc[c] = "verifying"
        /\ UNCHANGED <<current, files, changes, kinds, pc, ctxDone, offset, limit,
                       handle, size, reply, view, seen>>
    BY DEF HashSome, world
  <1>2. PICK n \in 1 .. Len(Rest(c)) :
          data' = [data EXCEPT ![c] = @ \o SubSeq(Rest(c), 1, n)]
    BY DEF HashSome
  <1> DEFINE new == data[c] \o SubSeq(Rest(c), 1, n)
  <1>3. File(c) \in Seq(Byte) /\ data[c] \in Seq(Byte) /\ offset[c] = 0 /\ 0 \in Nat
    BY <1>1 DEF TypeOK, File, ClientInv, CheckInv
  <1>4. /\ new \in Seq(Byte)
        /\ Slice(data[c], File(c), 0) => Slice(new, File(c), 0)
    <2>1. /\ Rest(c) = Behind(File(c), data[c], 0)
          /\ new = ReadOn(File(c), data[c], 0, n)
      BY <1>3 DEF Rest, File, Behind, ReadOn
    <2> HIDE DEF new
    <2> QED BY <1>3, <2>1, SliceGrows
  <1> HIDE DEF new
  <1>5. data' = [data EXCEPT ![c] = new] BY <1>2 DEF new
  <1>6. TypeOK' BY <1>1, <1>4, <1>5 DEF TypeOK
  <1>7. FileInv' BY <1>1 DEF FileInv
  <1>8. ASSUME NEW d \in Clients, d # c PROVE ClientInv(d)'
    <2>1. data'[d] = data[d] BY <1>5, <1>8 DEF TypeOK
    <2> QED BY <1>1, <2>1, Frame DEF world
  <1>9. ClientInv(c)'
    <2>1. data'[c] = new /\ File(c)' = File(c) /\ Content' = Content
      BY <1>1, <1>5 DEF TypeOK, File, Content
    <2>2. HandleInv(c)' BY <1>1, <2>1 DEF HandleInv, ClientInv
    <2>3. DataInv(c)' /\ ViewInv(c)' /\ AnswerInv(c)'
      BY <1>1 DEF DataInv, ViewInv, AnswerInv, Continues, Answered
    <2>4. CheckInv(c)' BY <1>1, <1>4, <2>1 DEF CheckInv, ClientInv
    <2> QED BY <2>2, <2>3, <2>4 DEF ClientInv
  <1> QED BY <1>6, <1>7, <1>8, <1>9

(* The digest is the expected one: the client has what the path had.       *)
LEMMA CompareDigestStep ==
    ASSUME Inv, NEW c \in Clients, CompareDigest(c) PROVE Inv'
  <1> USE DEF Inv
  <1>1. /\ pc[c] = "verifying" /\ Rest(c) = <<>> /\ data[c] = reply[c].digest
        /\ pc' = [pc EXCEPT ![c] = "renaming"]
        /\ UNCHANGED <<current, files, changes, kinds, ctxDone, offset, limit,
                       handle, size, data, reply, view, seen>>
    BY DEF CompareDigest, Goto, world, call
  <1>2. TypeOK' BY <1>1 DEF TypeOK, Places
  <1>3. FileInv' BY <1>1 DEF FileInv
  <1>4. ASSUME NEW d \in Clients, d # c PROVE ClientInv(d)'
    <2>1. pc'[d] = pc[d] BY <1>1, <1>4 DEF TypeOK
    <2> QED BY <1>1, <2>1, Frame DEF world
  <1>5. ClientInv(c)'
    <2>1. /\ File(c) \in Seq(Byte) /\ data[c] \in Seq(Byte) /\ offset[c] = 0
          /\ File(c) \in seen[c] /\ Content \in seen[c]
          /\ view[c] = reply[c].digest
          /\ seen[c] = {File(c)} \/ "rewrite" \notin kinds =>
                Slice(data[c], File(c), 0)
      BY <1>1 DEF TypeOK, File, ClientInv, HandleInv, CheckInv
    <2>2. ASSUME Slice(data[c], File(c), 0) PROVE view[c] = File(c)
      <3>1. Len(data[c]) \in Nat /\ Len(File(c)) \in Nat
        BY <2>1, LenProperties
      <3> DEFINE m == Len(data[c]) + 1
      <3>2. Len(Rest(c)) = IF m <= Len(File(c)) THEN Len(File(c)) - m + 1 ELSE 0
        <4>1. m \in Nat \ {0} /\ 0 + Len(data[c]) + 1 = m BY <3>1
        <4>2. Rest(c) = SubSeq(File(c), m, Len(File(c)))
          BY <2>1, <4>1 DEF Rest, File
        <4> HIDE DEF m
        <4> QED BY <2>1, <3>1, <4>1, <4>2, PartOf
      <3>3. Len(Rest(c)) = 0 BY <1>1, EmptySeq
      <3>4. 0 + Len(data[c]) <= Len(File(c)) BY <2>2 DEF Slice
      <3>5. Len(data[c]) = Len(File(c)) BY <3>1, <3>2, <3>3, <3>4
      <3>6. Slice(File(c), File(c), 0) BY <2>1, <3>1, SliceEnds
      <3>7. data[c] = File(c) BY <2>1, <2>2, <3>5, <3>6, SliceUnique
      <3> QED BY <1>1, <2>1, <3>7
    <2>3. ASSUME seen[c] = {Content} PROVE view[c] = Content
      <3>1. File(c) = Content BY <2>1, <2>3
      <3> QED BY <2>1, <2>2, <2>3, <3>1
    <2>4. "rewrite" \notin kinds => view[c] \in seen[c]
      BY <2>1, <2>2
    <2>5. pc'[c] = "renaming" /\ Content' = Content
      BY <1>1 DEF TypeOK, Content
    <2>6. /\ HandleInv(c)' /\ DataInv(c)' /\ ViewInv(c)' /\ AnswerInv(c)'
      BY <2>5 DEF HandleInv, DataInv, ViewInv, AnswerInv, Continues, Answered
    <2>7. CheckInv(c)'
      BY <1>1, <2>1, <2>3, <2>4, <2>5 DEF CheckInv
    <2> QED BY <2>6, <2>7 DEF ClientInv
  <1> QED BY <1>2, <1>3, <1>4, <1>5

(* The page that is returned, and the pages of the client with it. *)
LEMMA PageOf ==
    ASSUME Inv, NEW c \in Clients, pc[c] = "checking"
    PROVE  /\ Page(c) \in Seq(Byte) /\ Joined(c) \in Seq(Byte)
           /\ Len(Page(c)) = IF Truncated(c) THEN limit[c] ELSE Len(data[c])
           /\ ~Truncated(c) => Page(c) = data[c]
           /\ Slice(data[c], File(c), offset[c]) =>
                 Slice(Page(c), File(c), offset[c])
           /\ Joined(c) = view[c] \o Page(c)
           /\ Len(Joined(c)) = offset[c] + Len(Page(c))
           /\ changes = 0 => Slice(Joined(c), Content, 0)
  <1>1. /\ data[c] \in Seq(Byte) /\ view[c] \in Seq(Byte)
        /\ File(c) \in Seq(Byte) /\ offset[c] \in Nat /\ limit[c] \in Nat
    BY DEF Inv, TypeOK, File
  <1>2. Len(data[c]) \in Nat BY <1>1, LenProperties
  <1>3. /\ Page(c) \in Seq(Byte)
        /\ Len(Page(c)) = IF Truncated(c) THEN limit[c] ELSE Len(data[c])
        /\ Slice(data[c], File(c), offset[c]) =>
              Slice(Page(c), File(c), offset[c])
    <2>1. CASE Truncated(c)
      <3>1. limit[c] <= Len(data[c]) BY <1>1, <1>2, <2>1 DEF Truncated
      <3>2. Page(c) = SubSeq(data[c], 1, limit[c]) BY <2>1 DEF Page
      <3> QED BY <1>1, <2>1, <3>1, <3>2, SliceCut
    <2>2. CASE ~Truncated(c) BY <1>1, <2>2 DEF Page
    <2> QED BY <2>1, <2>2
  <1>4. Len(Page(c)) \in Nat /\ Len(Page(c)) <= Len(data[c])
    BY <1>1, <1>2, <1>3, LenProperties DEF Truncated
  <1>5. /\ Len(view[c]) = offset[c]
        /\ changes = 0 => Slice(view[c], Content, 0)
        /\ offset[c] + Len(data[c]) <= MaxLength
    BY DEF Inv, ClientInv, ViewInv, DataInv
  <1> DEFINE pages == view[c] \o Page(c)
  <1>6. pages \in Seq(Byte) /\ Len(pages) = offset[c] + Len(Page(c))
    <2> DEFINE v == view[c]
               p == Page(c)
    <2>1. v \in Seq(Byte) /\ p \in Seq(Byte) BY <1>1, <1>3
    <2> HIDE DEF v, p, Byte
    <2>2. v \o p \in Seq(Byte) /\ Len(v \o p) = Len(v) + Len(p)
      BY <2>1, ConcatProperties
    <2> QED BY <1>5, <2>2 DEF v, p
  <1>7. Joined(c) = pages
    <2>1. Len(pages) \in Nat /\ Len(pages) <= MaxLength /\ MaxLength \in Nat
      BY <1>1, <1>2, <1>4, <1>5, <1>6, ReadAssumption
    <2>2. SubSeq(pages, 1, Len(pages)) = pages
      <3> HIDE DEF pages, Byte
      <3> QED BY <1>6, SubSeqFull
    <2>3. (IF Len(pages) < MaxLength THEN Len(pages) ELSE MaxLength) = Len(pages)
      <3> HIDE DEF pages
      <3> QED BY <2>1
    <2>4. Joined(c) = SubSeq(pages, 1, IF Len(pages) < MaxLength THEN Len(pages)
                                       ELSE MaxLength)
      BY DEF Joined
    <2> HIDE DEF pages
    <2> QED BY <2>2, <2>3, <2>4
  <1>8. ASSUME changes = 0 PROVE Slice(Joined(c), Content, 0)
    <2>1. /\ handle[c] <= changes /\ current <= changes
          /\ handle[c] \in 0 .. MaxChanges /\ current \in 0 .. MaxChanges
      BY DEF Inv, TypeOK, ClientInv, HandleInv, FileInv
    <2>2. handle[c] = current
      <3> HIDE DEF Inv
      <3> QED BY <1>8, <2>1, ReadAssumption
    <2>3. File(c) = Content BY <2>2 DEF File, Content
    <2>4. Slice(data[c], File(c), offset[c])
      BY <1>8 DEF Inv, FileInv, ClientInv, DataInv
    <2> QED BY <1>1, <1>3, <1>5, <1>7, <1>8, <2>3, <2>4, SliceJoin
  <1> QED BY <1>3, <1>6, <1>7, <1>8 DEF Page

(* The page is returned. *)
LEMMA RespondStep == ASSUME Inv, NEW c \in Clients, Respond(c) PROVE Inv'
  <1> DEFINE ok == [kind |-> "ok", bytes |-> Page(c), total |-> size[c],
                    truncated |-> Truncated(c),
                    next |-> IF Truncated(c) THEN NextOffset(c) ELSE 0,
                    digest |-> Digest(c)]
  <1>1. /\ pc[c] = "checking" /\ pc' = [pc EXCEPT ![c] = "done"]
        /\ UNCHANGED <<current, files, changes, kinds, ctxDone, offset, limit,
                       handle, size, data, seen>>
        /\ \/ reply' = [reply EXCEPT ![c] = Answer("canceled")] /\ UNCHANGED view
           \/ /\ reply' = [reply EXCEPT ![c] = ok]
              /\ view' = [view EXCEPT ![c] = Joined(c)]
    BY DEF Respond, Return, Goto, world, call
  <1>2. /\ File(c) \in Seq(Byte) /\ File(c) \in seen[c] /\ handle[c] <= changes
        /\ data[c] \in Seq(Byte) /\ offset[c] \in Nat /\ limit[c] \in Nat
        /\ size[c] \in Nat /\ seen[c] \in SUBSET Seq(Byte)
    BY <1>1 DEF Inv, TypeOK, File, ClientInv, HandleInv
  <1>3. /\ Page(c) \in Seq(Byte) /\ Joined(c) \in Seq(Byte)
        /\ Len(Page(c)) = IF Truncated(c) THEN limit[c] ELSE Len(data[c])
        /\ ~Truncated(c) => Page(c) = data[c]
        /\ Slice(data[c], File(c), offset[c]) =>
              Slice(Page(c), File(c), offset[c])
        /\ Joined(c) = view[c] \o Page(c)
        /\ Len(Joined(c)) = offset[c] + Len(Page(c))
        /\ changes = 0 => Slice(Joined(c), Content, 0)
    BY <1>1, PageOf
  <1>4. Len(data[c]) \in Nat /\ Len(Page(c)) \in Nat /\ Len(File(c)) \in Nat
    BY <1>2, <1>3, LenProperties
  <1>5. Truncated(c) \in BOOLEAN /\ (Truncated(c) <=> Len(data[c]) > limit[c])
    BY DEF Truncated
  <1>6. NextOffset(c) = offset[c] + Len(Page(c))
    BY DEF NextOffset
  <1>7. /\ Digest(c) = None \/ Digest(c) = Page(c)
        /\ Digest(c) # None =>
              offset[c] = 0 /\ ~Truncated(c) /\ Len(Page(c)) = size[c]
    BY DEF Digest
  <1>8. ok \in Answers
    <2>1. NextOffset(c) \in Nat BY <1>2, <1>4, <1>6
    <2>2. Digest(c) \in Seq(Byte) \cup {None} BY <1>3, <1>7
    <2> HIDE DEF Byte
    <2> QED BY <1>2, <1>3, <1>5, <2>1, <2>2 DEF Answers
  <1>9. TypeOK'
    <2>1. reply' \in [Clients -> Answers]
      <3> HIDE DEF ok
      <3> QED BY <1>1, <1>8, Refusals DEF Inv, TypeOK
    <2>2. view' \in [Clients -> Seq(Byte)]
      BY <1>1, <1>3 DEF Inv, TypeOK
    <2> QED BY <1>1, <2>1, <2>2 DEF Inv, TypeOK, Places
  <1>10. FileInv' BY <1>1 DEF Inv, FileInv
  <1>11. ASSUME NEW d \in Clients, d # c PROVE ClientInv(d)'
    <2> HIDE DEF ok
    <2>1. pc'[d] = pc[d] /\ reply'[d] = reply[d] /\ view'[d] = view[d]
      BY <1>1, <1>11 DEF Inv, TypeOK
    <2> QED BY <1>1, <2>1, Frame DEF Inv, world
  <1>12. ClientInv(c)'
    <2>1. CASE reply' = [reply EXCEPT ![c] = Answer("canceled")]
      BY <1>1, <2>1, RefusedInv DEF Inv, TypeOK
    <2>2. CASE /\ reply' = [reply EXCEPT ![c] = ok]
               /\ view' = [view EXCEPT ![c] = Joined(c)]
      <3>1. /\ pc'[c] = "done" /\ view'[c] = Joined(c) /\ reply'[c] = ok
        BY <1>1, <2>2 DEF Inv, TypeOK
      <3>2. /\ reply'[c].kind = "ok" /\ reply'[c].bytes = Page(c)
            /\ reply'[c].total = size[c] /\ reply'[c].truncated = Truncated(c)
            /\ Truncated(c) => reply'[c].next = NextOffset(c)
            /\ reply'[c].digest = Digest(c)
        BY <3>1
      <3> HIDE DEF ok
      <3>3. HandleInv(c)' /\ DataInv(c)' BY <3>1 DEF HandleInv, DataInv
      <3>4. Content' = Content /\ changes' = changes BY <1>1 DEF Content
      <3>5. Digest(c) # None => Joined(c) = Digest(c)
        <4>1. SUFFICES ASSUME Digest(c) # None PROVE Joined(c) = Page(c)
          BY <1>7
        <4>2. view[c] \in Seq(Byte) /\ Len(view[c]) = 0
          BY <1>1, <1>7, <4>1 DEF Inv, TypeOK, ClientInv, ViewInv
        <4>3. view[c] = <<>>
          <5> HIDE DEF Byte
          <5> QED BY <4>2, EmptySeq
        <4> HIDE DEF Byte
        <4> QED BY <1>3, <4>3, ConcatEmptySeq
      <3>6. ViewInv(c)'
        BY <1>3, <1>6, <3>1, <3>2, <3>4, <3>5 DEF ViewInv, Continues
      <3>7. ASSUME kinds \subseteq {"replace"}
            PROVE  /\ size[c] = Len(File(c))
                   /\ Slice(Page(c), File(c), offset[c])
                   /\ Truncated(c) <=> offset[c] + Len(Page(c)) < Len(File(c))
        <4>1. /\ size[c] = Len(File(c)) /\ Slice(data[c], File(c), offset[c])
              /\ ~Truncated(c) => offset[c] + Len(data[c]) = Len(File(c))
          BY <1>1, <3>7 DEF Inv, ClientInv, DataInv
        <4>2. offset[c] + Len(data[c]) <= Len(File(c)) BY <4>1 DEF Slice
        <4>3. Truncated(c) => offset[c] + Len(Page(c)) < Len(File(c))
          BY <1>2, <1>3, <1>4, <1>5, <4>2
        <4>4. ~Truncated(c) => ~(offset[c] + Len(Page(c)) < Len(File(c)))
          BY <1>2, <1>3, <1>4, <4>1
        <4> QED BY <1>3, <4>1, <4>3, <4>4
      <3>8. ASSUME "rewrite" \notin kinds PROVE Digest(c) \in seen[c] \cup {None}
        <4>1. SUFFICES ASSUME Digest(c) # None PROVE Page(c) \in seen[c]
          BY <1>7
        <4>2. PICK old \in seen[c] : Len(old) = size[c] /\ Slice(old, File(c), 0)
          BY <1>1, <3>8 DEF Inv, ClientInv, DataInv
        <4>3. Slice(data[c], File(c), offset[c])
          BY <1>1, <3>8 DEF Inv, ClientInv, DataInv
        <4>4. Slice(Page(c), File(c), 0) /\ Len(Page(c)) = Len(old)
          BY <1>3, <1>7, <4>1, <4>2, <4>3
        <4>5. old \in Seq(Byte) BY <1>2
        <4>6. Page(c) = old BY <1>2, <1>3, <4>2, <4>4, <4>5, SliceUnique
        <4> QED BY <4>6
      <3>9. ASSUME changes = 0, ~Truncated(c) PROVE Joined(c) = Content
        <4>1. kinds \subseteq {"replace"} BY <3>9 DEF Inv, FileInv
        <4>2. offset[c] + Len(Page(c)) = Len(File(c))
          BY <1>1, <1>3, <3>9, <4>1 DEF Inv, ClientInv, DataInv
        <4>3. /\ current <= changes /\ Content \in Seq(Byte)
              /\ handle[c] \in 0 .. MaxChanges /\ current \in 0 .. MaxChanges
          BY DEF Inv, TypeOK, FileInv, Content
        <4>4. handle[c] = current
          BY <1>2, <3>9, <4>3, ReadAssumption
        <4>5. File(c) = Content BY <4>4 DEF File, Content
        <4>6. Slice(Joined(c), Content, 0) /\ Len(Joined(c)) = Len(Content)
          BY <1>3, <3>9, <4>2, <4>5
        <4>7. Len(Content) \in Nat BY <4>3, LenProperties
        <4>8. Slice(Content, Content, 0) BY <4>3, <4>7, SliceEnds
        <4> QED BY <1>3, <4>3, <4>6, <4>8, SliceUnique
      <3>10. AnswerInv(c)'
        BY <1>1, <1>2, <3>1, <3>2, <3>4, <3>7, <3>8, <3>9 DEF AnswerInv, Answered
      <3>11. CheckInv(c)' BY <3>1 DEF CheckInv
      <3> QED BY <3>3, <3>6, <3>10, <3>11 DEF ClientInv
    <2> HIDE DEF ok
    <2> QED BY <1>1, <2>1, <2>2
  <1> QED BY <1>9, <1>10, <1>11, <1>12 DEF Inv

-----------------------------------------------------------------------------
(***************************************************************************)
(* Every change of the file preserves the invariant.                       *)
(***************************************************************************)

(* The path gets another file, or its file another content; a client that  *)
(* did it has no call any more.                                            *)
Writes(content, how) ==
    /\ content \in Seq(Byte) /\ Len(content) <= MaxLength
    /\ \/ how = "replace" /\ Install(content)
       \/ /\ how = "append" /\ Modify(content)
          /\ \E more \in Seq(Byte) : content = Content \o more
       \/ how = "rewrite" /\ Modify(content)
    /\ Noted(how)
    /\ UNCHANGED <<call, reply, view>>

(* What a change does to the file behind a handle: nothing, or the path    *)
(* still names it and it is a content that was seen.                       *)
LEMMA ChangedFile ==
    ASSUME Inv, NEW content, NEW how, Writes(content, how), NEW d \in Clients,
           pc[d] \in {"statting", "reading", "checking", "verifying"}
    PROVE  /\ File(d) \in Seq(Byte) /\ File(d) \in seen[d]
           /\ handle[d] <= changes /\ seen[d] \subseteq seen'[d]
           /\ \/ File(d)' = File(d)
              \/ /\ how # "replace" /\ File(d)' \in seen'[d]
                 /\ how = "append" =>
                       \E more \in Seq(Byte) : File(d)' = File(d) \o more
  <1>1. /\ handle[d] <= changes /\ File(d) \in seen[d]
        /\ handle[d] \in 0 .. MaxChanges /\ changes \in 0 .. MaxChanges
        /\ current \in 0 .. MaxChanges /\ File(d) \in Seq(Byte)
        /\ files \in [0 .. MaxChanges -> Seq(Byte)]
    BY DEF Inv, TypeOK, ClientInv, HandleInv, File
  <1>2. /\ handle' = handle
        /\ seen'[d] = seen[d] \cup {files'[current']}
    BY DEF Writes, Noted, call
  <1>3. CASE how = "replace" /\ Install(content)
    <2>1. files' = [files EXCEPT ![changes + 1] = content]
      BY <1>3 DEF Install
    <2>2. handle[d] # changes + 1
      BY <1>1, ReadAssumption
    <2>3. File(d)' = File(d)
      BY <1>1, <1>2, <2>1, <2>2 DEF File
    <2> QED BY <1>1, <1>2, <2>3
  <1>4. CASE how # "replace" /\ Modify(content)
    <2>1. files' = [files EXCEPT ![current] = content] /\ current' = current
      BY <1>4 DEF Modify
    <2>2. files'[current'] = content BY <1>1, <2>1
    <2>3. CASE handle[d] = current
      <3>1. File(d)' = content /\ Content = File(d)
        BY <1>2, <2>1, <2>2, <2>3 DEF File, Content
      <3>2. how = "append" => \E more \in Seq(Byte) : content = Content \o more
        BY DEF Writes
      <3> QED BY <1>1, <1>2, <1>4, <2>2, <3>1, <3>2
    <2>4. CASE handle[d] # current
      <3>1. File(d)' = File(d) BY <1>1, <1>2, <2>1, <2>4 DEF File
      <3> QED BY <1>1, <1>2, <3>1
    <2> QED BY <2>3, <2>4
  <1> QED BY <1>3, <1>4 DEF Writes

(* A client whose call goes on, or who has an answer. *)
LEMMA ChangedClient ==
    ASSUME Inv, NEW content, NEW how, Writes(content, how), NEW d \in Clients,
           pc'[d] = pc[d]
    PROVE  ClientInv(d)'
  <1>1. /\ UNCHANGED <<offset, limit, handle, size, data, reply, view>>
        /\ changes' = changes + 1 /\ kinds' = kinds \cup {how}
        /\ pc[d] \in {"idle", "opening", "done"} => seen'[d] = seen[d]
    BY DEF Writes, Noted, call
  <1>2. changes \in Nat /\ changes' # 0 /\ offset[d] \in Nat
        /\ data[d] \in Seq(Byte) /\ seen[d] \in SUBSET Seq(Byte)
    BY <1>1, ReadAssumption DEF Inv, TypeOK
  <1>3. /\ how \in {"replace", "append", "rewrite"}
        /\ kinds' \subseteq {"replace"} =>
              kinds \subseteq {"replace"} /\ how = "replace"
        /\ "rewrite" \notin kinds' => "rewrite" \notin kinds /\ how # "rewrite"
    BY <1>1 DEF Writes
  <1>4. ClientInv(d) BY DEF Inv
  <1>5. HandleInv(d)'
    <2> SUFFICES ASSUME pc[d] \in {"statting", "reading", "checking",
                                   "verifying"}
                 PROVE  handle[d] <= changes' /\ File(d)' \in seen'[d]
      BY <1>1 DEF HandleInv
    <2>1. File(d)' \in seen'[d] /\ handle[d] <= changes
      BY ChangedFile
    <2>2. handle[d] \in Nat BY ReadAssumption DEF Inv, TypeOK
    <2> QED BY <1>1, <1>2, <2>1, <2>2
  <1>6. DataInv(d)'
    <2>1. pc[d] \in {"opening", "statting"} => data[d] = <<>>
      BY <1>4 DEF ClientInv, DataInv
    <2>2. ASSUME pc[d] \in {"reading", "checking"}
          PROVE  /\ offset[d] + Len(data[d]) <= MaxLength
                 /\ Len(data[d]) <= limit[d] + 1
                 /\ kinds' \subseteq {"replace"} =>
                       /\ size[d] = Len(File(d)')
                       /\ pc[d] = "checking" /\ ~Truncated(d) =>
                             offset[d] + Len(data[d]) = Len(File(d)')
                 /\ "rewrite" \notin kinds' =>
                       /\ Slice(data[d], File(d)', offset[d])
                       /\ \E old \in seen'[d] :
                             Len(old) = size[d] /\ Slice(old, File(d)', 0)
      <3>1. /\ offset[d] + Len(data[d]) <= MaxLength
            /\ Len(data[d]) <= limit[d] + 1
            /\ kinds \subseteq {"replace"} =>
                  /\ size[d] = Len(File(d))
                  /\ pc[d] = "checking" /\ ~Truncated(d) =>
                        offset[d] + Len(data[d]) = Len(File(d))
            /\ "rewrite" \notin kinds =>
                  /\ Slice(data[d], File(d), offset[d])
                  /\ \E old \in seen[d] :
                        Len(old) = size[d] /\ Slice(old, File(d), 0)
        BY <1>4, <2>2 DEF ClientInv, DataInv
      <3>2. /\ File(d) \in Seq(Byte) /\ seen[d] \subseteq seen'[d]
            /\ \/ File(d)' = File(d)
               \/ /\ how # "replace"
                  /\ how = "append" =>
                        \E more \in Seq(Byte) : File(d)' = File(d) \o more
        BY <2>2, ChangedFile
      <3>3. ASSUME "rewrite" \notin kinds'
            PROVE  /\ Slice(data[d], File(d)', offset[d])
                   /\ \E old \in seen'[d] :
                         Len(old) = size[d] /\ Slice(old, File(d)', 0)
        <4>1. PICK old \in seen[d] : Len(old) = size[d] /\ Slice(old, File(d), 0)
          BY <1>3, <3>1, <3>3
        <4>2. Slice(data[d], File(d), offset[d]) BY <1>3, <3>1, <3>3
        <4>3. CASE File(d)' = File(d) BY <3>2, <4>1, <4>2, <4>3
        <4>4. CASE File(d)' # File(d)
          <5>1. PICK more \in Seq(Byte) : File(d)' = File(d) \o more
            BY <1>3, <3>2, <3>3, <4>4
          <5>2. old \in Seq(Byte) BY <1>2
          <5>3. Slice(data[d], File(d) \o more, offset[d])
            BY <1>2, <3>2, <4>2, SliceStays
          <5>4. Slice(old, File(d) \o more, 0)
            BY <3>2, <4>1, <5>2, SliceStays
          <5> QED BY <3>2, <4>1, <5>1, <5>3, <5>4
        <4> QED BY <4>3, <4>4
      <3>4. kinds' \subseteq {"replace"} => File(d)' = File(d)
        BY <1>3, <3>2
      <3> QED BY <1>3, <3>1, <3>3, <3>4
    <2>3. Truncated(d)' = Truncated(d) BY <1>1 DEF Truncated
    <2> QED BY <1>1, <2>1, <2>2, <2>3 DEF DataInv
  <1>7. ViewInv(d)'
    BY <1>1, <1>2, <1>4 DEF ClientInv, ViewInv, Continues
  <1>8. AnswerInv(d)'
    <2> SUFFICES ASSUME Answered(d)' PROVE AnswerInv(d)'
      BY DEF AnswerInv
    <2>1. Answered(d) /\ seen'[d] = seen[d]
      BY <1>1 DEF Answered
    <2> QED BY <1>1, <1>2, <1>3, <1>4, <2>1 DEF ClientInv, AnswerInv
  <1>9. CheckInv(d)'
    <2> SUFFICES ASSUME pc[d] \in {"verifying", "renaming"} PROVE CheckInv(d)'
      BY DEF CheckInv
    <2>1. /\ seen'[d] = seen[d] \cup {Content'} /\ Content \in seen[d]
          /\ view[d] = reply[d].digest
      BY <1>4 DEF Writes, Noted, Content, ClientInv, CheckInv
    <2>2. ASSUME pc[d] = "verifying", seen'[d] = {File(d)'} \/ "rewrite" \notin kinds'
          PROVE  Slice(data[d], File(d)', 0)
      <3>1. /\ File(d) \in Seq(Byte) /\ File(d) \in seen[d]
            /\ \/ File(d)' = File(d)
               \/ /\ how # "replace" /\ File(d)' \in seen'[d]
                  /\ how = "append" =>
                        \E more \in Seq(Byte) : File(d)' = File(d) \o more
        BY <2>2, ChangedFile
      <3>2. CASE seen'[d] = {File(d)'}
        <4>1. seen[d] = {File(d)} /\ File(d)' = File(d)
          BY <2>1, <3>1, <3>2
        <4> QED BY <1>4, <2>2, <4>1 DEF ClientInv, CheckInv
      <3>3. CASE "rewrite" \notin kinds'
        <4>1. Slice(data[d], File(d), 0)
          BY <1>3, <1>4, <2>2, <3>3 DEF ClientInv, CheckInv
        <4>2. CASE File(d)' = File(d) BY <4>1, <4>2
        <4>3. CASE File(d)' # File(d)
          <5>1. PICK more \in Seq(Byte) : File(d)' = File(d) \o more
            BY <1>3, <3>1, <3>3, <4>3
          <5> QED BY <1>2, <3>1, <4>1, <5>1, SliceStays
        <4> QED BY <4>2, <4>3
      <3> QED BY <2>2, <3>2, <3>3
    <2>3. ASSUME pc[d] = "renaming"
          PROVE  /\ seen'[d] = {Content'} => view[d] = Content'
                 /\ "rewrite" \notin kinds' => view[d] \in seen'[d]
      <3>1. /\ seen[d] = {Content} => view[d] = Content
            /\ "rewrite" \notin kinds => view[d] \in seen[d]
        BY <1>4, <2>3 DEF ClientInv, CheckInv
      <3>2. ASSUME seen'[d] = {Content'} PROVE view[d] = Content'
        <4>1. seen[d] = {Content} /\ Content' = Content BY <2>1, <3>2
        <4> QED BY <3>1, <4>1
      <3> QED BY <1>3, <2>1, <3>1, <3>2
    <2>4. offset[d] = 0 \/ pc[d] # "verifying"
      BY <1>4 DEF ClientInv, CheckInv
    <2>5. Content' \in seen'[d] BY <2>1
    <2> QED BY <1>1, <2>1, <2>2, <2>3, <2>4, <2>5 DEF CheckInv
  <1> QED BY <1>5, <1>6, <1>7, <1>8, <1>9 DEF ClientInv

(* The file is changed by somebody. *)
LEMMA WritesStep ==
    ASSUME Inv, NEW content, NEW how, Writes(content, how),
           pc' \in [Clients -> Places],
           \A d \in Clients : pc'[d] \in {pc[d], "idle"}
    PROVE  Inv'
  <1>1. /\ UNCHANGED <<ctxDone, offset, limit, handle, size, data, reply, view>>
        /\ changes' = changes + 1 /\ kinds' = kinds \cup {how}
        /\ changes < MaxChanges
        /\ seen' = [d \in Clients |->
                      IF pc[d] \in {"idle", "opening", "done"} THEN seen[d]
                      ELSE seen[d] \cup {files'[current']}]
    BY DEF Writes, Noted, call, Install, Modify
  <1>2. changes \in Nat /\ MaxChanges \in Nat /\ content \in Seq(Byte)
        /\ Len(content) <= MaxLength /\ current \in Nat
        /\ changes + 1 \in 0 .. MaxChanges
    BY <1>1, ReadAssumption DEF Inv, TypeOK, Writes
  <1>3. /\ current' \in 0 .. MaxChanges /\ current' <= changes + 1
        /\ \E f \in 0 .. MaxChanges : files' = [files EXCEPT ![f] = content]
    <2>1. CASE Install(content)
      <3>1. /\ current' = changes + 1
            /\ files' = [files EXCEPT ![changes + 1] = content]
        BY <2>1 DEF Install
      <3>2. changes + 1 <= changes + 1 BY <1>2
      <3> QED BY <1>2, <3>1, <3>2
    <2>2. CASE Modify(content)
      <3>1. /\ current' = current /\ current \in 0 .. MaxChanges
            /\ current <= changes
            /\ files' = [files EXCEPT ![current] = content]
        BY <2>2 DEF Modify, Inv, TypeOK, FileInv
      <3>2. current <= changes + 1 BY <1>2, <3>1
      <3> QED BY <3>1, <3>2
    <2> QED BY <2>1, <2>2 DEF Writes
  <1>4. files' \in [0 .. MaxChanges -> Seq(Byte)]
    BY <1>2, <1>3 DEF Inv, TypeOK
  <1>5. files'[current'] \in Seq(Byte) BY <1>3, <1>4
  <1>6. seen' \in [Clients -> SUBSET Seq(Byte)]
    <2>1. ASSUME NEW d \in Clients PROVE seen'[d] \in SUBSET Seq(Byte)
      <3>1. seen[d] \in SUBSET Seq(Byte) BY DEF Inv, TypeOK
      <3>2. seen'[d] = seen[d] \/ seen'[d] = seen[d] \cup {files'[current']}
        BY <1>1
      <3> QED BY <1>5, <3>1, <3>2
    <2>2. seen' = [d \in Clients |-> seen'[d]] BY <1>1
    <2> QED BY <2>1, <2>2
  <1>7. TypeOK'
    BY <1>1, <1>2, <1>3, <1>4, <1>6 DEF Inv, TypeOK
  <1>8. FileInv'
    <2>1. \A f \in 0 .. MaxChanges : Len(files'[f]) <= MaxLength
      BY <1>2, <1>3 DEF Inv, TypeOK, FileInv
    <2>2. changes' # 0 BY <1>1, <1>2
    <2> QED BY <1>1, <1>3, <2>1, <2>2 DEF FileInv
  <1>9. ASSUME NEW d \in Clients PROVE ClientInv(d)'
    <2>1. CASE pc'[d] = pc[d] BY <2>1, ChangedClient
    <2>2. CASE pc'[d] = "idle" BY <2>2, IdleInv
    <2> QED BY <2>1, <2>2
  <1> QED BY <1>7, <1>8, <1>9 DEF Inv

(* A whole new content is a file. *)
LEMMA FreshType ==
    ASSUME Inv, NEW n \in 0 .. MaxLength
    PROVE  Fresh(n) \in Seq(Byte) /\ Len(Fresh(n)) <= MaxLength
  <1>1. changes + 1 \in Nat /\ n \in Nat /\ 0 <= n /\ 0 \in Nat
    BY ReadAssumption DEF Inv, TypeOK
  <1>2. Fresh(n) \in Seq(Byte) /\ Len(Fresh(n)) = n - 0
    BY <1>1, BytesType DEF Fresh
  <1> QED BY <1>1, <1>2

(* A client replaces the file. *)
LEMMA RenameStep == ASSUME Inv, NEW c \in Clients, Rename(c) PROVE Inv'
  <1>1. PICK n \in 0 .. MaxLength : Install(Fresh(n))
    BY DEF Rename
  <1>2. Writes(Fresh(n), "replace")
    BY <1>1, FreshType DEF Rename, Writes
  <1>3. pc' = [pc EXCEPT ![c] = "idle"]
    BY DEF Rename, Goto
  <1>4. /\ pc' \in [Clients -> Places]
        /\ \A d \in Clients : pc'[d] \in {pc[d], "idle"}
    BY <1>3 DEF Inv, TypeOK, Places
  <1> QED BY <1>2, <1>4, WritesStep

(* Another program replaces, extends or rewrites the file. *)
LEMMA OthersWriteStep == ASSUME Inv, OthersWrite PROVE Inv'
  <1>1. /\ UNCHANGED <<call, reply, view>>
        /\ pc' \in [Clients -> Places]
        /\ \A d \in Clients : pc'[d] \in {pc[d], "idle"}
    BY DEF OthersWrite, Inv, TypeOK
  <1>2. CASE \E n \in 0 .. MaxLength : Install(Fresh(n)) /\ Noted("replace")
    <2>1. PICK n \in 0 .. MaxLength : Install(Fresh(n)) /\ Noted("replace")
      BY <1>2
    <2>2. Writes(Fresh(n), "replace") BY <1>1, <2>1, FreshType DEF Writes
    <2> QED BY <1>1, <2>2, WritesStep
  <1>3. CASE \E n \in 0 .. MaxLength : Modify(Fresh(n)) /\ Noted("rewrite")
    <2>1. PICK n \in 0 .. MaxLength : Modify(Fresh(n)) /\ Noted("rewrite")
      BY <1>3
    <2>2. Writes(Fresh(n), "rewrite") BY <1>1, <2>1, FreshType DEF Writes
    <2> QED BY <1>1, <2>2, WritesStep
  <1> DEFINE more == Bytes(changes + 1, Len(Content), Len(Content) + 1)
  <1>4. CASE Len(Content) < MaxLength /\ Modify(Content \o more) /\ Noted("append")
    <2>1. Content \in Seq(Byte) /\ changes + 1 \in Nat
      BY ReadAssumption DEF Inv, TypeOK, Content
    <2>2. Len(Content) \in Nat BY <2>1, LenProperties
    <2>3. more \in Seq(Byte) /\ Len(more) = 1
      <3> DEFINE k == Len(Content)
      <3>1. k \in Nat /\ k + 1 \in Nat /\ k <= k + 1 /\ (k + 1) - k = 1
        BY <2>2
      <3> HIDE DEF k
      <3>2. Bytes(changes + 1, k, k + 1) \in Seq(Byte)
            /\ Len(Bytes(changes + 1, k, k + 1)) = (k + 1) - k
        BY <2>1, <3>1, BytesType
      <3> QED BY <3>1, <3>2 DEF k
    <2> HIDE DEF more
    <2>4. Content \o more \in Seq(Byte) /\ Len(Content \o more) = Len(Content) + 1
      <3> HIDE DEF Byte
      <3> QED BY <2>1, <2>3, ConcatProperties
    <2>5. Len(Content \o more) <= MaxLength
      BY <1>4, <2>2, <2>4, ReadAssumption
    <2>6. Writes(Content \o more, "append")
      BY <1>1, <1>4, <2>3, <2>4, <2>5 DEF Writes
    <2> QED BY <1>1, <2>6, WritesStep
  <1> QED BY <1>2, <1>3, <1>4 DEF OthersWrite

-----------------------------------------------------------------------------
(***************************************************************************)
(* The properties of the tool.                                             *)
(***************************************************************************)

(* Inv holds before the first call. *)
LEMMA InitInv == Init => Inv
  <1> SUFFICES ASSUME Init PROVE Inv
    OBVIOUS
  <1>1. PICK n \in 0 .. MaxLength :
          files = [f \in 0 .. MaxChanges |-> Bytes(0, 0, n)]
    BY DEF Init
  <1>2. n \in Nat /\ 0 <= n /\ n - 0 = n /\ 0 \in Nat /\ MaxChanges \in Nat
    BY ReadAssumption
  <1>3. Bytes(0, 0, n) \in Seq(Byte) /\ Len(Bytes(0, 0, n)) = n
    BY <1>2, BytesType
  <1>4. <<>> \in Seq(Byte) BY EmptySeq
  <1>5. TypeOK
    <2>1. files \in [0 .. MaxChanges -> Seq(Byte)] BY <1>1, <1>3
    <2> HIDE DEF Byte
    <2> QED BY <1>2, <1>4, <2>1, Refusals DEF Init, TypeOK, Places
  <1>6. FileInv
    <2>1. \A f \in 0 .. MaxChanges : Len(files[f]) <= MaxLength
      BY <1>1, <1>3
    <2> QED BY <2>1 DEF Init, FileInv
  <1>7. \A c \in Clients : ClientInv(c)
    BY DEF Init, ClientInv, HandleInv, DataInv, ViewInv, AnswerInv, CheckInv,
           Continues, Answered
  <1> QED BY <1>5, <1>6, <1>7 DEF Inv

(* Inv holds in every state. *)
THEOREM Invariance == Spec => []Inv
  <1>1. Inv /\ [Next]_vars => Inv'
    <2> SUFFICES ASSUME Inv, [Next]_vars PROVE Inv'
      OBVIOUS
    <2>1. ASSUME NEW c \in Clients, CallStep(c) PROVE Inv'
      BY <2>1, OpenStep, StatStep, ReadSomeStep, EndOfFileStep, RespondStep
      DEF CallStep
    <2>2. CASE UNCHANGED vars
      <3>1. UNCHANGED <<current, files, changes, kinds, pc, ctxDone, offset,
                        limit, handle, size, data, reply, view, seen>>
        BY <2>2 DEF vars, world, call
      <3>2. TypeOK' BY <3>1 DEF Inv, TypeOK
      <3>3. FileInv' BY <3>1 DEF Inv, FileInv
      <3>4. \A c \in Clients : ClientInv(c)' BY <3>1, Frame DEF Inv, world
      <3> QED BY <3>2, <3>3, <3>4 DEF Inv
    <2> QED
      BY <2>1, <2>2, FirstPageStep, NextPageStep, CancelStep, OpenTargetStep,
         HashSomeStep, CompareDigestStep, RenameStep, StartOverStep,
         OthersWriteStep
      DEF Next
  <1> QED BY <1>1, InitInv, PTL DEF Spec

(* An answer of read is about one content that the path had while the call *)
(* ran, and so is the digest it gives for a later replacement.             *)
THEOREM OneContent == Spec => []AnswerIsOfOneContent
  <1>1. Inv => AnswerIsOfOneContent
    <2> SUFFICES ASSUME Inv, NEW c \in Clients, Answered(c)
                 PROVE  /\ kinds \subseteq {"replace"} =>
                              \E whole \in seen[c] :
                                 /\ reply[c].total = Len(whole)
                                 /\ reply[c].bytes =
                                       SubSeq(whole, offset[c] + 1,
                                              offset[c] + Len(reply[c].bytes))
                                 /\ reply[c].truncated <=>
                                       offset[c] + Len(reply[c].bytes) < Len(whole)
                        /\ "rewrite" \notin kinds =>
                              reply[c].digest \in seen[c] \cup {None}
      BY DEF AnswerIsOfOneContent
    <2>1. AnswerInv(c) BY DEF Inv, ClientInv
    <2>2. ASSUME kinds \subseteq {"replace"}
          PROVE  \E whole \in seen[c] :
                    /\ reply[c].total = Len(whole)
                    /\ reply[c].bytes =
                          SubSeq(whole, offset[c] + 1,
                                 offset[c] + Len(reply[c].bytes))
                    /\ reply[c].truncated <=>
                          offset[c] + Len(reply[c].bytes) < Len(whole)
      <3>1. PICK whole \in seen[c] :
              /\ reply[c].total = Len(whole)
              /\ Slice(reply[c].bytes, whole, offset[c])
              /\ reply[c].truncated <=>
                    offset[c] + Len(reply[c].bytes) < Len(whole)
        BY <2>1, <2>2 DEF AnswerInv
      <3>2. /\ whole \in Seq(Byte) /\ offset[c] \in Nat
            /\ reply[c].bytes \in Seq(Byte)
        BY DEF Inv, TypeOK, Answers
      <3>3. reply[c].bytes =
              SubSeq(whole, offset[c] + 1, offset[c] + Len(reply[c].bytes))
        BY <3>1, <3>2, SliceUnique
      <3> QED BY <3>1, <3>3
    <2> QED BY <2>1, <2>2 DEF AnswerInv
  <1> QED BY <1>1, Invariance, PTL

(* The pages of an unchanged file join to the file. *)
THEOREM JoinedPages == Spec => []PagesJoin
  <1>1. Inv => PagesJoin
    BY DEF Inv, ClientInv, AnswerInv, PagesJoin
  <1> QED BY <1>1, Invariance, PTL

(* A replacement under a digest from read loses no update that was made    *)
(* before its last check: the client has the bytes it replaces in hand, or *)
(* others wrote between the check of the digest and the rename, and then   *)
(* it has what the path held in that interval.                             *)
THEOREM NoUpdateIsLost == Spec => NoLostUpdate
  <1>1. ASSUME Inv, NEW c \in Clients, Rename(c)
        PROVE  /\ seen[c] = {Content} => view[c] = Content
               /\ "rewrite" \notin kinds => view[c] \in seen[c]
    <2>1. pc[c] = "renaming" BY <1>1 DEF Rename
    <2> QED BY <1>1, <2>1 DEF Inv, ClientInv, CheckInv
  <1>2. Inv => \A c \in Clients : Rename(c) =>
                  /\ seen[c] = {Content} => view[c] = Content
                  /\ "rewrite" \notin kinds => view[c] \in seen[c]
    BY <1>1
  <1> QED BY <1>2, Invariance, PTL DEF NoLostUpdate

=============================================================================
