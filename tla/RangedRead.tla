------------------------------ MODULE RangedRead ------------------------------
(***************************************************************************)
(* A ranged read: the host resolves the path to an object under the        *)
(* registry lock, fetches the object's manifest with the lock released,    *)
(* and answers a plan of the chunks that cover the range; the client       *)
(* fetches them one by one and trims what it has to the range it wanted.   *)
(* Meanwhile writes bind the path to other objects.                        *)
(*                                                                         *)
(* The blob store is external and content-addressed: what an id names      *)
(* never changes; a fetch may fail, or be refused for a wrong hash.        *)
(***************************************************************************)
EXTENDS Integers, Sequences, FiniteSets

CONSTANTS
  Sizes, ChunkSizes,   \* of the objects the path may be bound to
  MaxU,                \* 2^64 - 1, the largest offset and length
  None                 \* no length: to the end

ASSUME RangedReadAssumption ==
  /\ MaxU \in Nat /\ Sizes \subseteq 0..MaxU /\ ChunkSizes \subseteq 1..MaxU
  /\ None \notin 0..MaxU

Objects == [size : Sizes, chunk : ChunkSizes]
U64 == 0..MaxU

(* The bytes of the objects, told apart by object and place. *)
Bytes == UNION {{o} \X (0..(o.size - 1)) : o \in Objects}

VARIABLES
  current,      \* the object the path is bound to
  pc,           \* of the read: "idle", "manifest", "fetch", "done", "failed"
  offset, len,  \* the range asked for
  object,       \* the object the host resolved
  plan,         \* chunks still to fetch, in the order of their offsets
  first,        \* offset of the plan's first chunk
  buf,          \* bytes fetched
  result        \* bytes handed to the caller

readVars == <<current, pc, offset, len, object, plan, first, buf, result>>

-------------------------------------------------------------------------------
(* read_plan. *)
Least(a, b) == IF a < b THEN a ELSE b

SaturatingAdd(a, b) == Least(a + b, MaxU)

End(o, off, n) == IF n = None THEN o.size ELSE Least(SaturatingAdd(off, n), o.size)

(* Fault: every chunk has the full chunk size. *)
WholeChunk(o, i) == [offset |-> (i - 1) * o.chunk, len |-> o.chunk]

(* Chunk i of the manifest: chunk_size bytes, the last one what remains. *)
Chunk(o, i) ==
  [offset |-> (i - 1) * o.chunk, len |-> Least(o.chunk, o.size - (i - 1) * o.chunk)]

Manifest(o) == {Chunk(o, i) : i \in 1..((o.size + o.chunk - 1) \div o.chunk)}

(* Fault: a chunk that ends where the range starts is sent too. *)
Touches(c, off, end) == c.offset + c.len >= off /\ c.offset < end

Intersects(c, off, end) == c.offset + c.len > off /\ c.offset < end

ReadPlan(o, off, n) ==
  LET end == End(o, off, n)
  IN  IF off >= end THEN {} ELSE {c \in Manifest(o) : Intersects(c, off, end)}

(* The first chunk of a plan: chunks are pushed and fetched in order. *)
Earliest(chunks) == CHOOSE c \in chunks : \A d \in chunks : c.offset <= d.offset

-------------------------------------------------------------------------------
ReadInit ==
  /\ current \in Objects
  /\ pc = "idle" /\ offset = 0 /\ len = None /\ object = current
  /\ plan = {} /\ first = 0 /\ buf = << >> /\ result = << >>

(* A write commits another object to the path. *)
Overwrite(o) ==
  /\ o # current
  /\ current' = o
  /\ UNCHANGED <<pc, offset, len, object, plan, first, buf, result>>

(* op_read, under the lock: the object the path is bound to. *)
Resolve(off, n) ==
  /\ pc = "idle"
  /\ pc' = "manifest" /\ offset' = off /\ len' = n /\ object' = current
  /\ UNCHANGED <<current, plan, first, buf, result>>

(* The manifest has come: compute the plan and answer it. *)
Plan ==
  /\ pc = "manifest"
  /\ plan' = ReadPlan(object, offset, len)
  /\ first' = IF plan' = {} THEN 0 ELSE Earliest(plan').offset
  /\ pc' = "fetch"
  /\ UNCHANGED <<current, offset, len, object, buf, result>>

(* Fault: chunks are read through the path, not by their ids. *)
ChunkBytesByPath(c) ==
  [k \in 1..(Least(c.offset + c.len, current.size) - c.offset) |->
     <<current, c.offset + k - 1>>]

ChunkBytes(c) == [k \in 1..c.len |-> <<object, c.offset + k - 1>>]

(* The client fetches the next chunk and verifies its id. *)
Fetch ==
  /\ pc = "fetch" /\ plan # {}
  /\ buf' = buf \o ChunkBytes(Earliest(plan))
  /\ plan' = plan \ {Earliest(plan)}
  /\ UNCHANGED <<current, pc, offset, len, object, first, result>>

(* No manifest, or a chunk that cannot be had: the caller gets an error. *)
Fail ==
  /\ pc = "manifest" \/ (pc = "fetch" /\ plan # {})
  /\ pc' = "failed"
  /\ UNCHANGED <<current, offset, len, object, plan, first, buf, result>>

(* The chunks start at a boundary: trim to what was asked for.  An end      *)
(* past the buffer is the buffer's.                                         *)
Trim ==
  /\ pc = "fetch" /\ plan = {}
  /\ LET start == offset - first
         end == IF len = None THEN Len(buf) ELSE Least(start + len, Len(buf))
     IN  result' = IF buf = << >> THEN << >> ELSE SubSeq(buf, start + 1, end)
  /\ pc' = "done"
  /\ UNCHANGED <<current, offset, len, object, plan, first, buf>>

(* The caller reads again. *)
Again ==
  /\ pc \in {"done", "failed"}
  /\ pc' = "idle" /\ offset' = 0 /\ len' = None /\ object' = current
  /\ plan' = {} /\ first' = 0 /\ buf' = << >> /\ result' = << >>
  /\ UNCHANGED current

ReadNext ==
  \/ \E o \in Objects : Overwrite(o)
  \/ \E off \in U64, n \in U64 \union {None} : Resolve(off, n)
  \/ Plan \/ Fetch \/ Fail \/ Trim \/ Again

ReadSpec == ReadInit /\ [][ReadNext]_readVars

-------------------------------------------------------------------------------
Chunks == [offset : U64, len : U64]

ReadTypeOK ==
  /\ current \in Objects /\ object \in Objects
  /\ pc \in {"idle", "manifest", "fetch", "done", "failed"}
  /\ offset \in U64 /\ len \in U64 \union {None} /\ first \in U64
  /\ plan \subseteq Chunks
  /\ buf \in Seq(Bytes) /\ result \in Seq(Bytes)

(* The places of o a caller means by offset and length, whatever their sum. *)
Wanted(o, off, n) == {p \in 0..(o.size - 1) : p >= off /\ (n = None \/ p < off + n)}

(* A read that succeeds returns exactly the range asked for, clipped to the *)
(* object, in order, of one object the path was bound to during the read:   *)
(* no byte of another version, none missing at a chunk boundary, none too   *)
(* many, for every offset and length a u64 can hold.                        *)
ReadExact ==
  pc = "done" =>
    result = [k \in 1..Cardinality(Wanted(object, offset, len)) |->
                <<object, offset + k - 1>>]

(* Each chunk of a plan holds a byte of the range: a read of nothing, or    *)
(* one that starts or ends on a boundary, fetches no chunk in vain.         *)
NoChunkInVain ==
  \A c \in plan :
    \E place \in c.offset..(c.offset + c.len - 1) :
      place >= offset /\ (len = None \/ place < offset + len)
===============================================================================
