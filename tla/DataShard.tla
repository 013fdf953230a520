------------------------------ MODULE DataShard ------------------------------
(***************************************************************************)
(* The record file shard.dat (src/utils/data_shard.cc) over a sequence of  *)
(* sessions: a loader creates it or appends to it, buffering tuples in     *)
(* buf_ and writing them with fstream; it may crash at any moment, and is  *)
(* run again with kAppend, which looks for the end of the last complete    *)
(* tuple and overwrites from there; a reader iterates with a buffer of its *)
(* own size.                                                               *)
(*                                                                         *)
(* A file is a sequence of cells: one for a length word, one for each byte *)
(* of a key or value.  A cell is a number, so bytes that end up where a    *)
(* length is looked for are read as one, as in the code.  Keys are short   *)
(* of PrepareForAppend's 256 bytes and hold no zero.                       *)
(***************************************************************************)
EXTENDS Integers, SequencesExt  \* ToSet, Max

CONSTANTS
  Tuples,      \* the <<key, value>> pairs the loader's source delivers
  WriteCap,    \* capacity of the writing shard
  ReadCap,     \* capacity of the reading shard
  Resubmits,   \* whether the source delivers a tuple twice in a session
  MaxSessions  \* bound: times a shard is opened

ASSUME Assumption ==
  /\ \A t \in Tuples : t \in Seq(Nat) \X Seq(Nat)
  /\ WriteCap \in Nat
  /\ ReadCap \in Nat
  /\ Resubmits \in BOOLEAN
  /\ MaxSessions \in Nat

VARIABLES
  file,      \* the cells of shard.dat
  mode,      \* "closed", "write", "read", "end" (Next was false), "aborted"
  keys,      \* keys_
  buf,       \* buf_[0 .. offset_) of the writer
  pending,   \* given to fdat_.write, maybe not in the file yet
  pos,       \* where the file will take it
  rd,        \* the reader: its buffer, offset, file position, eof and outcome
  got,       \* the tuples the reader has returned since SeekToFirst
  offered,   \* tuples the source has delivered in this session
  queued,    \* the tuples in buf,
  sent,      \* in pending,
  flushed,   \* and those of flushed or closed sessions
  durable,   \* the length of the file that those end at
  sessions   \* sessions opened

writervars == <<keys, buf, pending, pos, offered, queued, sent>>
vars == <<file, mode, writervars, rd, got, flushed, durable, sessions>>

Key(t) == t[1]
Val(t) == t[2]

\* [key_len key record_len val]
Encode(t) == <<Len(Key(t))>> \o Key(t) \o <<Len(Val(t))>> \o Val(t)

\* An fstream write of b at offset `at`; a gap it leaves reads as zeros.
Written(f, at, b) ==
  IF b = << >> THEN f
  ELSE [i \in 1 .. Max({Len(f), at + Len(b)}) |->
          IF i > at /\ i <= at + Len(b) THEN b[i - at]
          ELSE IF i <= Len(f) THEN f[i] ELSE 0]

----------------------------------------------------------------------------
(* PrepareForAppend and Count: a walk over the file, tuple by tuple.  The  *)
(* value is skipped with seekg, which may pass the end of the file.        *)

\* The words and the key of a tuple at offset o are in the file.
HeaderAt(f, o) == o + 1 <= Len(f) /\ o + f[o + 1] + 2 <= Len(f)

EndAt(f, o) == o + 2 + f[o + 1] + f[o + f[o + 1] + 2]

\* The keys found from offset o on, how many, and where the last one ends.
Scan(f) ==
  LET scan[o \in Nat] ==
        IF HeaderAt(f, o)
        THEN LET rest == scan[EndAt(f, o)] IN
             [keys  |-> rest.keys \cup {SubSeq(f, o + 2, o + 1 + f[o + 1])},
              count |-> rest.count + 1,
              last  |-> rest.last]
        ELSE [keys |-> {}, count |-> 0, last |-> o]
  IN scan[0]

\* Mutation: the tuple that ends at the end of the file is not counted.
CountUntilEof(f) ==
  IF f # << >> /\ Scan(f).last = Len(f) THEN Scan(f).count - 1 ELSE Scan(f).count

Count(f) == Scan(f).count

----------------------------------------------------------------------------
(* Reading: PrepareNextField and Next *)

NewReader == [buf |-> << >>, off |-> 0, fpos |-> 0, eof |-> FALSE,
              out |-> "ok", field |-> << >>]

\* Mutation: the file is read over what is left in the buffer.
RefilledOver(r) ==
  LET gcount == Min({ReadCap, Len(file) - r.fpos})
  IN [r EXCEPT !.buf  = SubSeq(file, r.fpos + 1, r.fpos + gcount),
               !.off  = 0,
               !.fpos = @ + gcount,
               !.eof  = gcount < ReadCap]

\* What is left in the buffer, and the reader with that moved to its front.
Left(r) == SubSeq(r.buf, r.off + 1, Len(r.buf))

Shifted(r) == [r EXCEPT !.buf = Left(r), !.off = 0]

\* The rest of the buffer is filled from the file.
Refilled(r) ==
  LET want   == ReadCap - Len(Left(r))
      gcount == Min({want, Len(file) - r.fpos})
  IN [Shifted(r) EXCEPT !.buf  = @ \o SubSeq(file, r.fpos + 1, r.fpos + gcount),
                        !.fpos = @ + gcount,
                        !.eof  = gcount < want]

\* PrepareNextField(n): "ok", "end" when it returns false, "aborted" when
\* its CHECK fails.  At the end of the file too, what is left has moved.
Prepared(r, n) ==
  IF r.off + n <= Len(r.buf) THEN r
  ELSE IF Len(Left(r)) > r.off THEN [r EXCEPT !.out = "aborted"]
  ELSE IF r.eof THEN [Shifted(r) EXCEPT !.out = "end"]
  ELSE Refilled(r)

\* One field of n cells is taken; the CHECK_LE after PrepareNextField.
TakeField(r, n) ==
  LET p == IF r.out = "ok" THEN Prepared(r, n) ELSE r IN
  IF p.out # "ok" THEN p
  ELSE IF p.off + n > Len(p.buf) THEN [p EXCEPT !.out = "aborted"]
  ELSE [p EXCEPT !.off = @ + n, !.field = SubSeq(p.buf, p.off + 1, p.off + n)]

\* The length a word field says.
Word(r) == IF r.out = "ok" THEN r.field[1] ELSE 0

\* A length word is taken, and what has the length it says.
TakeWord(r) == TakeField(r, 1)
TakeData(r) == TakeField(r, Word(r))

----------------------------------------------------------------------------
(* Sessions *)

\* Mutation: the put pointer stays at the start of the file.
PutAtStart(f) == 0

PutPointer(f) == Scan(f).last

Init ==
  /\ file = << >> /\ mode = "closed"
  /\ keys = {} /\ buf = << >> /\ pending = << >> /\ pos = 0
  /\ rd = NewReader /\ got = << >>
  /\ offered = {} /\ queued = << >> /\ sent = << >>
  /\ flushed = << >> /\ durable = 0 /\ sessions = 0

Open ==
  /\ mode \in {"closed", "aborted"}
  /\ sessions < MaxSessions
  /\ sessions' = sessions + 1

\* A writing session begins.
StartWriting ==
  /\ mode' = "write"
  /\ buf' = << >> /\ pending' = << >>
  /\ offered' = {} /\ queued' = << >> /\ sent' = << >>
  /\ rd' = NewReader /\ got' = << >>

\* kCreate truncates.
OpenCreate ==
  /\ Open
  /\ StartWriting
  /\ file' = << >> /\ keys' = {} /\ pos' = 0
  /\ flushed' = << >> /\ durable' = 0

\* kAppend: ios::in|ios::out keeps what is behind the put pointer.
OpenAppend ==
  /\ Open
  /\ StartWriting
  /\ keys' = Scan(file).keys
  /\ pos'  = PutPointer(file)
  /\ UNCHANGED <<file, flushed, durable>>

OpenRead ==
  /\ Open
  /\ sessions > 0
  /\ mode' = "read"
  /\ rd' = NewReader
  /\ got' = << >>
  /\ UNCHANGED <<file, writervars, flushed, durable>>

----------------------------------------------------------------------------
(* Writer *)

\* The process dies: of what was given to fdat_.write some beginning is in
\* the file.
Die(given) ==
  /\ \E n \in 0 .. Len(given) : file' = Written(file, pos, SubSeq(given, 1, n))
  /\ mode' = "closed"
  /\ keys' = {} /\ buf' = << >> /\ pending' = << >> /\ pos' = 0
  /\ offered' = {} /\ queued' = << >> /\ sent' = << >>
  /\ UNCHANGED <<rd, got, flushed, durable, sessions>>

\* Mutation: only an empty value is refused.
RefusedEmpty(t) == Val(t) = << >>

\* A tuple whose key was found at the opening is refused, and so is an
\* empty value.
Refused(t) == Key(t) \in keys \/ Val(t) = << >>

\* Mutation: no room is made; the buffer is taken to hold everything.
NeverFull(t) == FALSE

\* The tuple does not fit behind what is in the buffer.
NoRoom(t) == Len(buf) + Len(Encode(t)) > WriteCap

Insert(t) ==
  /\ mode = "write"
  /\ t \notin offered \/ Resubmits
  /\ ~ Refused(t)
  /\ IF ~ NoRoom(t)
     THEN /\ buf' = buf \o Encode(t)
          /\ queued' = Append(queued, t)
          /\ offered' = offered \cup {t}
          /\ UNCHANGED <<file, mode, keys, pending, pos, sent, rd, got, flushed, durable, sessions>>
     ELSE IF Len(Encode(t)) <= WriteCap
     THEN /\ pending' = pending \o buf
          /\ sent' = sent \o queued
          /\ buf' = Encode(t)
          /\ queued' = <<t>>
          /\ offered' = offered \cup {t}
          /\ UNCHANGED <<file, mode, keys, pos, rd, got, flushed, durable, sessions>>
     ELSE Die(pending \o buf)

\* Everything given to the file, b included, gets there.
Settle(b, tuples) ==
  /\ file' = Written(file, pos, b)
  /\ pos' = pos + Len(b)
  /\ pending' = << >> /\ sent' = << >>
  /\ flushed' = flushed \o tuples
  /\ durable' = IF b = << >> THEN durable ELSE pos + Len(b)

Flush ==
  /\ mode = "write"
  /\ buf \o pending # << >>
  /\ Settle(pending \o buf, sent \o queued)
  /\ buf' = << >> /\ queued' = << >>
  /\ UNCHANGED <<mode, keys, offered, rd, got, sessions>>

\* The destructor closes the file without flushing buf_.
Close ==
  /\ mode = "write"
  /\ Settle(pending, sent)
  /\ mode' = "closed"
  /\ keys' = {} /\ buf' = << >> /\ queued' = << >> /\ offered' = {}
  /\ UNCHANGED <<rd, got, sessions>>

Crash ==
  /\ mode = "write"
  /\ Die(pending)

----------------------------------------------------------------------------
(* Reader *)

\* Next(key, val): a value length of 0 also makes it return false.  Callers
\* (ShardDataLayer::ComputeFeature) call it again after it has.
ReadNext ==
  /\ mode \in {"read", "end"}
  /\ LET keylen == TakeWord([rd EXCEPT !.out = "ok"])
         key    == TakeData(keylen)
         vallen == TakeWord(key)
         val    == TakeData(vallen)
     IN /\ rd' = [val EXCEPT !.field = << >>]
        /\ IF val.out = "ok" /\ Word(vallen) > 0
           THEN got' = Append(got, <<key.field, val.field>>) /\ mode' = "read"
           ELSE UNCHANGED got /\ mode' = IF val.out = "aborted" THEN "aborted" ELSE "end"
  /\ UNCHANGED <<file, writervars, flushed, durable, sessions>>

SeekToFirst ==
  /\ mode \in {"read", "end"}
  /\ mode' = "read"
  /\ rd' = NewReader
  /\ got' = << >>
  /\ UNCHANGED <<file, writervars, flushed, durable, sessions>>

CloseReader ==
  /\ mode \in {"read", "end"}
  /\ mode' = "closed"
  /\ rd' = NewReader
  /\ got' = << >>
  /\ UNCHANGED <<file, writervars, flushed, durable, sessions>>

Next ==
  \/ OpenCreate \/ OpenAppend \/ OpenRead
  \/ \E t \in Tuples : Insert(t)
  \/ Flush \/ Close \/ Crash
  \/ ReadNext \/ SeekToFirst \/ CloseReader

Spec == Init /\ [][Next]_vars
----------------------------------------------------------------------------
(* Properties *)

TypeOK ==
  /\ file \in Seq(Nat) /\ buf \in Seq(Nat) /\ pending \in Seq(Nat)
  /\ mode \in {"closed", "write", "read", "end", "aborted"}
  /\ keys \subseteq Seq(Nat)
  /\ pos \in Nat /\ durable \in 0 .. Len(file)
  /\ rd.off \in 0 .. Len(rd.buf) /\ Len(rd.buf) <= ReadCap /\ rd.fpos \in 0 .. Len(file)
  /\ Len(buf) <= WriteCap

\* A reader that comes to the end of the file has returned every tuple whose
\* session flushed or closed it, in order, whatever crashes came before,
\* between and after (torn remainders may appear between them).
FlushedReadable ==
  mode = "end" => SelectSeq(got, LAMBDA t : t \in ToSet(flushed)) = flushed

\* The walk of PrepareForAppend and Count comes past every tuple a session
\* flushed or closed: the next kAppend finds its key and refuses it, and
\* Count counts it, whatever crashes came between.
FlushedFound ==
  /\ \A t \in ToSet(flushed) : Key(t) \in Scan(file).keys
  /\ Len(flushed) <= Count(file)

\* No session but a kCreate changes the cells up to the last flush.
FlushedUntouched ==
  [][~ OpenCreate => SubSeq(file', 1, durable) = SubSeq(file, 1, durable)]_vars

\* A loader whose source has no duplicates can be run again after any crash:
\* no key is stored twice.
KeyStoredOnce ==
  mode = "end" => \A i, j \in 1 .. Len(got) : got[i][1] = got[j][1] => i = j

\* Count never says fewer tuples than a reader gets: the two walk the file
\* with different code and different ideas of its end.
CountCoversRead == Len(got) <= Count(file)

\* data_shard.h:25: a tuple whose write crashed is removed at the next opening;
\* a reader then sees tuples of the source only.
TornTupleRemoved == mode = "end" => ToSet(got) \subseteq Tuples

\* data_shard.h:59: Next returns false when there is no complete tuple to read.
EndsQuietly == mode # "aborted"
=============================================================================
