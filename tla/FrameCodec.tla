----------------------------- MODULE FrameCodec -----------------------------
(***************************************************************************)
(* The wire-frame codec, transport/frame.ts.  A JSON value is a leaf, a    *)
(* blob, or an object or array with `kids`, a function from keys.  A key is*)
(* the sequence of the parts its dots separate, so that joining keys with  *)
(* dots and splitting the path again is concatenation.  JSON.stringify and *)
(* JSON.parse are the identity on what they carry; the head's length and   *)
(* the bytes of a blob are left out.                                       *)
(***************************************************************************)
EXTENDS Naturals, Sequences, FiniteSets, TLC

Leaf == [t |-> "leaf"]
Null == [t |-> "null"]
Missing == [t |-> "undefined"]
Blob(n) == [t |-> "blob", bytes |-> n]
Node(kind, kids) == [t |-> kind, kids |-> kids]
IsNode(v) == v.t \in {"object", "array"}

Unsafe == {"__proto__", "constructor", "prototype"}

\* `prefix ? prefix + "." + k : k`, where an empty key leaves an empty prefix.
Join(prefix, k) == IF prefix \in {<<>>, <<"">>} THEN k ELSE prefix \o k

\* findBinaryPath: the path of a blob, found depth first; NoPath if there is none.
NoPath == <<"none">>
RECURSIVE findBinaryPath(_, _)
findBinaryPath(v, prefix) ==
  IF v.t = "blob" THEN prefix
  ELSE IF ~IsNode(v) THEN NoPath
  ELSE LET found == {p \in {findBinaryPath(v.kids[k], Join(prefix, k)) : k \in DOMAIN v.kids} :
                       p # NoPath}
       IN  IF found = {} THEN NoPath ELSE CHOOSE p \in found : TRUE

\* One step of a path: only a key without a dot is ever met.
At(v, part) ==
  IF IsNode(v) /\ <<part>> \in DOMAIN v.kids THEN v.kids[<<part>>] ELSE Missing

RECURSIVE getPath(_, _)
getPath(v, path) == IF path = <<>> THEN v ELSE getPath(At(v, Head(path)), Tail(path))

\* Mutant: the walk to the parent is left out.
AssignedTop(v, path, x) == [v EXCEPT !.kids = (<<path[Len(path)]>> :> x) @@ @]

\* The assignment of setPath; it throws on a step through a missing value.
RECURSIVE Assigned(_, _, _)
Assigned(v, path, x) ==
  IF path = <<>> THEN x
  ELSE [v EXCEPT !.kids = (<<Head(path)>> :> Assigned(At(v, Head(path)), Tail(path), x)) @@ @]

setPath(v, path, x) ==
  IF \E i \in DOMAIN path : path[i] \in Unsafe THEN v ELSE Assigned(v, path, x)

\* deepClone: a blob has no keys of its own.
RECURSIVE deepClone(_)
deepClone(v) ==
  IF v.t = "blob" THEN Node("object", [k \in {} |-> Leaf])
  ELSE IF IsNode(v) THEN [v EXCEPT !.kids = [k \in DOMAIN v.kids |-> deepClone(v.kids[k])]]
  ELSE v

\* A frame: the JSON head, the path and the body of a binary one; or the call throws.
Throws == [head |-> Missing, path |-> NoPath, body |-> Missing]

encodeFrame(env) ==
  LET path == findBinaryPath(env, <<>>)
      body == getPath(env, path)
  IN  IF path = NoPath THEN [head |-> env, path |-> NoPath, body |-> Missing]
      ELSE IF body.t # "blob" THEN Throws
      ELSE [head |-> setPath(deepClone(env), path, Null), path |-> path, body |-> body]

decodeFrame(f) == IF f.path = NoPath THEN f.head ELSE setPath(f.head, f.path, f.body)

-----------------------------------------------------------------------------
\* The envelopes the property ranges over: two levels, with plain, dotted, empty
\* and unsafe keys.

Keys == {<<"a">>, <<"b">>, <<"a", "b">>, <<"">>, <<"constructor">>}
Flat == {Leaf, Blob(1)}
Inner == Flat
     \cup UNION {{Node("object", f) : f \in [ks -> Flat]} : ks \in SUBSET {<<"b">>, <<"a", "b">>}}
     \cup {Node("array", f) : f \in [{<<"0">>, <<"1">>} -> Flat]}
Envelopes == UNION {{Node("object", f) : f \in [ks -> Inner]} :
                      ks \in {s \in SUBSET Keys : Cardinality(s) \in 1..2}}

RECURSIVE Blobs(_)
Blobs(v) == IF v.t = "blob" THEN 1
            ELSE IF ~IsNode(v) THEN 0
            ELSE LET ks == DOMAIN v.kids
                     S[s \in SUBSET ks] == IF s = {} THEN 0
                       ELSE LET k == CHOOSE k \in s : TRUE IN Blobs(v.kids[k]) + S[s \ {k}]
                 IN  S[ks]

VARIABLES sent, frame, got    \* an envelope on its way; Missing where there is none yet

codecVars == <<sent, frame, got>>

CodecIdle == sent = Missing /\ frame = Throws /\ got = Missing
CodecInit == sent \in {e \in Envelopes : Blobs(e) <= 1} /\ frame = Throws /\ got = Missing

\* Conn.call and sendFrame encode before they send.
Transmit == /\ frame = Throws /\ encodeFrame(sent) # Throws
            /\ frame' = encodeFrame(sent)
            /\ UNCHANGED <<sent, got>>

\* onMessage decodes what arrives.
Receive == /\ frame # Throws /\ got = Missing
           /\ got' = decodeFrame(frame)
           /\ UNCHANGED <<sent, frame>>

CodecNext == sent # Missing /\ (Transmit \/ Receive)

\* An envelope with at most one blob arrives as it was sent whatever its keys, if it
\* is sent at all, unless the blob lies under a key that setPath refuses: there the
\* frame goes out and the blob is lost (frame.ts:24-126).
CodecFaithful ==
  got # Missing /\ (\A i \in DOMAIN frame.path : frame.path[i] \notin Unsafe) => got = sent
=============================================================================
