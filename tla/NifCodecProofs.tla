--------------------------- MODULE NifCodecProofs ---------------------------
(***************************************************************************)
(* Proofs about NifCodec, for any codecs of the components: what the codec  *)
(* of a type keeps and what it loses, by what those of its components do.   *)
(* It is the step of an induction over types.                               *)
(***************************************************************************)
EXTENDS NifCodec, SequenceTheorems, WellFoundedInduction, TLAPS

-----------------------------------------------------------------------------
(* Types and terms *)

IsSeq(s) == s \in Seq({s[i] : i \in DOMAIN s})
IsMap(m) == m = [k \in DOMAIN m |-> m[k]]

\* The name of an atom is one that an atom can have.
IsTerm(t) ==
  \/ \E n : t = Num(n)
  \/ \E b : t = Bin(b)
  \/ \E a : t = Atom(a) /\ ~(Len(a) > MaxName)
  \/ \E s : t = Tuple(s) /\ IsSeq(s)
  \/ \E s, rest : t = List(s, rest) /\ IsSeq(s)
  \/ \E m : t = Map(m) /\ IsMap(m)

\* The terms that a term is made of, but for the keys of a map.
Elements(t) ==
  IF t[1] \in {"tuple", "list", "map"} THEN {t[2][i] : i \in DOMAIN t[2]} ELSE {}

IsTag(a) == IsAtom(a) /\ IsTerm(a)

\* What the derives may be given: tags, modules and units are atoms.
IsType(y) ==
  \/ y \in {<<"wide">>, <<"byte">>, <<"bool">>, <<"str">>, <<"name">>}
  \/ \E names : y = NifUnitEnum(names) /\ \A a \in names : IsTag(a)
  \/ \E z : y = <<"option", z>>
  \/ \E z : y = <<"vec", z>>
  \/ \E z, e : y = <<"result", z, e>>
  \/ \E ys : y = NifTuple(ys) /\ IsSeq(ys)
  \/ \E tag, ys : y = NifRecord(tag, ys) /\ IsTag(tag) /\ IsSeq(ys)
  \/ \E ys : y = NifMap(ys)
  \/ \E module, ys : y = NifStruct(module, ys) /\ IsTag(module) /\ StructKey \notin DOMAIN ys
  \/ \E ys : y = NifUntaggedEnum(ys) /\ IsSeq(ys)

\* A sequence is the function on 1..Len(s) of its elements.
LEMMA SeqParts ==
  ASSUME NEW s, IsSeq(s)
  PROVE  /\ Len(s) \in Nat /\ DOMAIN s = 1..Len(s)
         /\ s = [i \in 1..Len(s) |-> s[i]]
BY DEF IsSeq

\* A function on 1..n is a sequence.
LEMMA SeqOf ==
  ASSUME NEW n \in Nat, NEW s, s = [i \in 1..n |-> s[i]]
  PROVE  IsSeq(s) /\ Len(s) = n
<1> DEFINE S == {s[i] : i \in 1..n}
<1>1. DOMAIN s = 1..n
  OBVIOUS
<1>2. s \in [1..n -> S]
  OBVIOUS
<1>3. s \in Seq(S) /\ Len(s) = n
  BY <1>2
<1> QED
  BY <1>1, <1>3 DEF IsSeq

\* A set of natural numbers has a least element.
LEMMA LeastNatural ==
  ASSUME NEW S \in SUBSET Nat, S # {}
  PROVE  \E m \in S : \A k \in S : m <= k
<1> DEFINE R == OpToRel(<, Nat)
<1>1. IsWellFoundedOn(R, Nat)
  BY NatLessThanWellFounded
<1>2. \A x, y \in Nat : <<x, y>> \in R <=> x < y
  BY DEF OpToRel
<1> HIDE DEF R
<1>3. PICK m \in S : \A k \in S : ~(<<k, m>> \in R)
  BY <1>1, WFMin
<1>4. \A k \in S : k \in Nat /\ m \in Nat /\ ~(k < m)
  BY <1>2, <1>3
<1> QED
  BY <1>3, <1>4

\* What tells results apart.
LEMMA OkIs ==
  ASSUME NEW v
  PROVE  IsOk(Ok(v)) /\ Ok(v)[2] = v /\ ~IsOk(Panics) /\ ~IsOk(BadArg) /\ ~IsOk(Invalid)
BY DEF IsOk, Ok, Panics, BadArg, Invalid

\* What collecting the results of several decodes gives.
LEMMA AllOrFirstIs ==
  ASSUME NEW rs, IsSeq(rs), NEW tag
  PROVE  /\ (\A i \in DOMAIN rs : IsOk(rs[i])) =>
              AllOrFirst(rs, tag) = Ok(<<tag, [i \in DOMAIN rs |-> rs[i][2]]>>)
         /\ (\E i \in DOMAIN rs : ~IsOk(rs[i])) =>
              \E i \in DOMAIN rs : /\ ~IsOk(rs[i]) /\ AllOrFirst(rs, tag) = rs[i]
                                   /\ \A j \in 1..(i - 1) : IsOk(rs[j])
         /\ IsOk(AllOrFirst(rs, tag)) <=> \A i \in DOMAIN rs : IsOk(rs[i])
<1>0. Len(rs) \in Nat /\ DOMAIN rs = 1..Len(rs)
  BY SeqParts
<1>1. CASE \A i \in DOMAIN rs : IsOk(rs[i])
  BY <1>1 DEF AllOrFirst, Ok, IsOk
<1>2. CASE \E i \in DOMAIN rs : ~IsOk(rs[i])
  <2> DEFINE bad == {i \in DOMAIN rs : ~IsOk(rs[i])}
             first(i) == ~IsOk(rs[i]) /\ \A j \in 1..(i - 1) : IsOk(rs[j])
  <2>0. bad \in SUBSET Nat /\ bad # {}
    BY <1>0, <1>2
  <2>1. PICK m \in bad : \A k \in bad : m <= k
    <3> HIDE DEF bad
    <3> QED
      BY <2>0, LeastNatural
  <2>2. m \in DOMAIN rs /\ first(m)
    BY <1>0, <2>1
  <2> HIDE DEF first
  <2>3. (CHOOSE i \in DOMAIN rs : first(i)) \in DOMAIN rs /\ first(CHOOSE i \in DOMAIN rs : first(i))
    BY <2>2
  <2>4. AllOrFirst(rs, tag) = rs[CHOOSE i \in DOMAIN rs : first(i)]
    BY <1>2 DEF AllOrFirst, first
  <2> QED
    BY <1>2, <2>3, <2>4 DEF first
<1> QED
  BY <1>1, <1>2

-----------------------------------------------------------------------------
(* A value that is encoded and decoded *)

\* The codecs of the components restore those of v.
PartsKept(y, v) ==
  \A p \in Components(y, v) : Dec(p[1], Enc(p[1], p[2])) = Ok(p[2])

\* What decode tries before it comes to the component of v does not panic.
NoPanicBefore(y, v) ==
  /\ y[1] = "option" => Dec(y[2], NilAtom) # Panics
  /\ y[1] = "untagged" =>
       \A i \in 1..(v[2] - 1) : Dec(y[2][i], Enc(y[2][v[2]], v[3])) # Panics

\* Numbers of both widths: a value fits its own type.
LEMMA KeptNumber ==
  ASSUME NEW kind \in {"wide", "byte"}, NEW y, y = <<kind>>, NEW v \in ValuesOf(y)
  PROVE  Decode(y, Encode(y, v)) = Ok(v)
<1> USE NifTermsAssumption
<1>1. CASE kind = "wide"
  <2>1. PICK n \in 0..(Wide - 1) : v = <<"n", n>>
    BY <1>1 DEF ValuesOf
  <2> QED
    BY <1>1, <2>1 DEF Encode, EncodeNumber, Num, Decode, DecodeNumber, Ok
<1>2. CASE kind = "byte"
  <2>1. PICK n \in 0..(Byte - 1) : v = <<"n", n>>
    BY <1>2 DEF ValuesOf
  <2>2. n % Byte = n /\ n \in 0..(Wide - 1)
    BY <2>1
  <2> QED
    BY <1>2, <2>1, <2>2 DEF Encode, EncodeNumber, Num, Decode, DecodeNumber, Ok
<1> QED
  BY <1>1, <1>2

\* true and false are two atoms.
LEMMA KeptBool ==
  ASSUME NEW y, y = <<"bool">>, NEW v \in ValuesOf(y)
  PROVE  Decode(y, Encode(y, v)) = Ok(v)
<1>1. PICK b \in BOOLEAN : v = <<"b", b>>
  BY DEF ValuesOf
<1>2. True \notin {False, NilAtom} /\ False \in {False, NilAtom}
  BY DEF True, False, NilAtom, Atom
<1>3. Encode(y, v) = IF b THEN True ELSE False
  BY <1>1 DEF Encode, EncodeBool
<1>4. Decode(y, Encode(y, v)) = Ok(<<"b", Encode(y, v) \notin {False, NilAtom}>>)
  BY DEF Decode, DecodeBool
<1>5. (Encode(y, v) \notin {False, NilAtom}) = b
  BY <1>2, <1>3
<1> QED
  BY <1>1, <1>4, <1>5

\* What is encoded as a string is UTF-8.
LEMMA KeptStr ==
  ASSUME NEW y, y = <<"str">>, NEW v \in ValuesOf(y)
  PROVE  Decode(y, Encode(y, v)) = Ok(v)
<1>1. v = <<"s", "utf8">>
  BY DEF ValuesOf
<1> QED
  BY <1>1 DEF Encode, EncodeStr, Decode, DecodeStr, Ok, Bin

\* A name that can be an atom is read back from the atom.
LEMMA KeptName ==
  ASSUME NEW y, y = <<"name">>, NEW v \in ValuesOf(y), ~NoAtom(y, v)
  PROVE  Decode(y, Encode(y, v)) = Ok(v)
<1> DEFINE S == UNION {[1..n -> Chars] : n \in 1..(MaxName + 1)}
<1>1. ValuesOf(y) = {<<"name", s>> : s \in S}
  BY DEF ValuesOf
<1>2. PICK s \in S : v = <<"name", s>>
  <2> HIDE DEF S
  <2> QED
    BY <1>1
<1>3. PICK n \in 1..(MaxName + 1) : s \in [1..n -> Chars]
  BY <1>2
<1>4. ~(\E i \in DOMAIN s : s[i] = "wide") /\ ~(Len(s) > MaxName)
  BY <1>2 DEF NoAtom
<1>5. FromStr(s) = Ok(Atom(s))
  BY <1>4 DEF FromStr
<1>6. DecodeName(Atom(s)) = Ok(<<"name", s>>)
  BY <1>4 DEF DecodeName, IsAtom, Atom
<1> QED
  BY <1>2, <1>5, <1>6 DEF Encode, Decode, Ok

\* A variant is found by the atom of its name.
LEMMA KeptUnit ==
  ASSUME NEW names, \A a \in names : IsTag(a), NEW y, y = NifUnitEnum(names),
         NEW v \in ValuesOf(y)
  PROVE  Decode(y, Encode(y, v)) = Ok(v)
<1>1. PICK a \in names : v = <<"unit", a>>
  BY DEF ValuesOf, NifUnitEnum
<1> QED
  BY <1>1 DEF Encode, EncodeUnit, Decode, DecodeUnit, NifUnitEnum, IsTag

\* None is nil, and Some a term that the component takes.
LEMMA KeptOption ==
  ASSUME NEW z, NEW y, y = <<"option", z>>, NEW v \in ValuesOf(y),
         PartsKept(y, v), NoPanicBefore(y, v), ~Ambiguous(y, v)
  PROVE  Decode(y, Encode(y, v)) = Ok(v)
<1>1. ValuesOf(y) = {Some(w) : w \in Vals(z)} \cup {None}
  BY DEF ValuesOf
<1>2. Decode(y, Encode(y, v)) = DecodeOption(z, EncodeOption(z, v))
  BY DEF Decode, Encode
<1>3. CASE v = None
  <2>1. ~IsOk(Dec(z, NilAtom)) /\ Dec(z, NilAtom) # Panics
    BY <1>3 DEF Ambiguous, NoPanicBefore
  <2>2. EncodeOption(z, v) = NilAtom
    BY <1>3 DEF EncodeOption
  <2> QED
    BY <1>2, <1>3, <2>1, <2>2 DEF DecodeOption
<1>4. CASE v # None
  <2>1. PICK w \in Vals(z) : v = Some(w)
    BY <1>1, <1>4
  <2>2. <<z, w>> \in Components(y, v)
    BY <1>4, <2>1 DEF Components, Some
  <2>3. Dec(z, Enc(z, w)) = Ok(w)
    BY <2>2 DEF PartsKept
  <2>4. EncodeOption(z, v) = Enc(z, w)
    BY <1>4, <2>1 DEF EncodeOption, Some
  <2> QED
    BY <1>2, <2>1, <2>3, <2>4, OkIs DEF DecodeOption
<1> QED
  BY <1>3, <1>4

\* The elements are pushed from the last to the first and read in order.
LEMMA KeptVec ==
  ASSUME NEW z, NEW y, y = <<"vec", z>>, NEW v \in ValuesOf(y), MaxList \in Nat,
         PartsKept(y, v)
  PROVE  Decode(y, Encode(y, v)) = Ok(v)
<1> DEFINE S == UNION {[1..n -> Vals(z)] : n \in 0..MaxList}
<1>1. ValuesOf(y) = {<<"vec", vs>> : vs \in S}
  BY DEF ValuesOf
<1>2. PICK vs \in S : v = <<"vec", vs>>
  <2> HIDE DEF S
  <2> QED
    BY <1>1
<1>3. PICK n \in 0..MaxList : vs \in [1..n -> Vals(z)]
  BY <1>2
<1> DEFINE ts == [i \in DOMAIN vs |-> Enc(z, vs[i])]
           rs == [i \in DOMAIN ts |-> Dec(z, ts[i])]
<1>4. Decode(y, Encode(y, v)) = AllOrFirst(rs \o <<>>, "vec")
  <2>1. Encode(y, v) = List(ts, End)
    BY <1>2 DEF Encode, EncodeVec
  <2>2. Decode(y, List(ts, End)) = DecodeVec(z, List(ts, End))
    BY DEF Decode
  <2> HIDE DEF ts
  <2>3. List(ts, End)[1] = "list" /\ List(ts, End)[2] = ts /\ List(ts, End)[3] = End
    BY DEF List
  <2>4. DecodeVec(z, List(ts, End)) = AllOrFirst(rs \o <<>>, "vec")
    BY <2>3 DEF DecodeVec
  <2> QED
    BY <2>1, <2>2, <2>4
<1>5. \A i \in 1..n : rs[i] = Ok(vs[i])
  <2>1. \A i \in 1..n : <<z, vs[i]>> \in Components(y, v)
    BY <1>2, <1>3 DEF Components
  <2>2. \A i \in 1..n : Dec(z, Enc(z, vs[i])) = Ok(vs[i])
    BY <2>1 DEF PartsKept
  <2> QED
    BY <1>3, <2>2
<1>6. rs = [i \in 1..n |-> rs[i]] /\ n \in Nat /\ DOMAIN rs = 1..n
  BY <1>3
<1> HIDE DEF rs
<1>7. IsSeq(rs) /\ Len(rs) = n
  BY <1>6, SeqOf
<1>8. rs \o <<>> = rs
  BY <1>7 DEF IsSeq
<1>9. \A i \in DOMAIN rs : IsOk(rs[i]) /\ rs[i][2] = vs[i]
  BY <1>5, <1>6, OkIs
<1>10. [i \in DOMAIN rs |-> rs[i][2]] = vs
  BY <1>3, <1>6, <1>9
<1>11. AllOrFirst(rs, "vec") = Ok(<<"vec", [i \in DOMAIN rs |-> rs[i][2]]>>)
  BY <1>7, <1>9, AllOrFirstIs
<1>12. AllOrFirst(rs, "vec") = Ok(v)
  BY <1>2, <1>10, <1>11
<1> QED
  BY <1>4, <1>8, <1>12

\* The fields of tuples and records.
LEMMA KeptFields ==
  ASSUME NEW ys, IsSeq(ys), NEW vs \in FieldVals(ys), NEW t, NEW from \in Nat, NEW error,
         IsTuple(t), Len(t[2]) = from + Len(ys),
         \A i \in DOMAIN ys : Dec(ys[i], t[2][from + i]) = Ok(vs[i])
  PROVE  DecodeFields(ys, t, from, error) = Ok(<<"tuple", vs>>)
<1> DEFINE rs == [i \in DOMAIN ys |-> Dec(ys[i], t[2][from + i])]
<1>1. Len(ys) \in Nat /\ DOMAIN ys = 1..Len(ys)
  BY SeqParts
<1>2. vs = [i \in DOMAIN ys |-> vs[i]]
  BY DEF FieldVals
<1>3. DecodeFields(ys, t, from, error) = AllOrFirst(rs, "tuple")
  BY DEF DecodeFields
<1>4. \A i \in DOMAIN ys : rs[i] = Ok(vs[i])
  OBVIOUS
<1>5. DOMAIN rs = 1..Len(ys) /\ rs = [i \in 1..Len(ys) |-> rs[i]]
  BY <1>1
<1> HIDE DEF rs
<1>6. IsSeq(rs)
  BY <1>1, <1>5, SeqOf
<1>7. \A i \in DOMAIN rs : IsOk(rs[i]) /\ rs[i][2] = vs[i]
  BY <1>1, <1>4, <1>5, OkIs
<1>8. [i \in DOMAIN rs |-> rs[i][2]] = vs
  BY <1>1, <1>2, <1>5, <1>7
<1> QED
  BY <1>3, <1>6, <1>7, <1>8, AllOrFirstIs

\* The terms of the fields are those of a sequence.
LEMMA EncodedFields ==
  ASSUME NEW ys, IsSeq(ys), NEW vs \in FieldVals(ys)
  PROVE  /\ IsSeq(EncodeAll(ys, vs)) /\ Len(EncodeAll(ys, vs)) = Len(ys)
         /\ \A i \in DOMAIN ys : EncodeAll(ys, vs)[i] = Enc(ys[i], vs[i])
<1>1. Len(ys) \in Nat /\ DOMAIN ys = 1..Len(ys)
  BY SeqParts
<1>2. DOMAIN vs = DOMAIN ys
  BY DEF FieldVals
<1>3. EncodeAll(ys, vs) = [k \in 1..Len(ys) |-> Enc(ys[k], vs[k])]
  BY <1>1, <1>2 DEF EncodeAll
<1>4. EncodeAll(ys, vs) = [k \in 1..Len(ys) |-> EncodeAll(ys, vs)[k]]
  BY <1>3
<1>5. IsSeq(EncodeAll(ys, vs)) /\ Len(EncodeAll(ys, vs)) = Len(ys)
  BY <1>1, <1>4, SeqOf
<1> QED
  BY <1>1, <1>3, <1>5

\* Every field is read from its own place.
LEMMA KeptTuple ==
  ASSUME NEW ys, IsSeq(ys), NEW y, y = NifTuple(ys), NEW v \in ValuesOf(y), PartsKept(y, v)
  PROVE  Decode(y, Encode(y, v)) = Ok(v)
<1>1. PICK vs \in FieldVals(ys) : v = <<"tuple", vs>>
  BY DEF ValuesOf, NifTuple
<1> DEFINE s == EncodeAll(ys, vs)
<1>2. Encode(y, v) = Tuple(s)
  BY <1>1 DEF Encode, EncodeTuple, NifTuple
<1>3. Decode(y, Tuple(s)) = DecodeFields(ys, Tuple(s), 0, BadArg)
  BY DEF Decode, DecodeTuple, NifTuple
<1>4. Len(s) = Len(ys) /\ \A i \in DOMAIN ys : s[i] = Enc(ys[i], vs[i])
  BY EncodedFields
<1>5. \A i \in DOMAIN ys : Dec(ys[i], Enc(ys[i], vs[i])) = Ok(vs[i])
  <2>1. Components(y, v) = {<<ys[k], vs[k]>> : k \in DOMAIN ys}
    BY <1>1 DEF Components, NifTuple
  <2>2. \A i \in DOMAIN ys : <<ys[i], vs[i]>> \in Components(y, v)
    BY <2>1
  <2> QED
    BY <2>2 DEF PartsKept
<1> HIDE DEF s
<1>6. Len(ys) \in Nat /\ DOMAIN ys = 1..Len(ys) /\ IsTuple(Tuple(s)) /\ Tuple(s)[2] = s
  BY SeqParts DEF IsTuple, Tuple
<1>7. Len(Tuple(s)[2]) = 0 + Len(ys) /\ \A i \in DOMAIN ys : Dec(ys[i], Tuple(s)[2][0 + i]) = Ok(vs[i])
  BY <1>4, <1>5, <1>6
<1>8. DecodeFields(ys, Tuple(s), 0, BadArg) = Ok(<<"tuple", vs>>)
  BY <1>6, <1>7, KeptFields
<1> QED
  BY <1>1, <1>2, <1>3, <1>8

\* The fields follow the tag.
LEMMA KeptRecord ==
  ASSUME NEW tag, IsTag(tag), NEW ys, IsSeq(ys), NEW y, y = NifRecord(tag, ys),
         NEW v \in ValuesOf(y), PartsKept(y, v)
  PROVE  Decode(y, Encode(y, v)) = Ok(v)
<1>1. PICK vs \in FieldVals(ys) : v = <<"tuple", vs>>
  BY DEF ValuesOf, NifRecord
<1> DEFINE f == EncodeAll(ys, vs)
           s == <<tag>> \o f
<1>2. Encode(y, v) = Tuple(s)
  BY <1>1 DEF Encode, EncodeRecord, NifRecord
<1>3. Decode(y, Tuple(s)) = DecodeRecord(tag, ys, Tuple(s))
  BY DEF Decode, NifRecord
<1>4. IsSeq(f) /\ Len(f) = Len(ys) /\ \A i \in DOMAIN ys : f[i] = Enc(ys[i], vs[i])
  BY EncodedFields
<1>5. \A i \in DOMAIN ys : Dec(ys[i], Enc(ys[i], vs[i])) = Ok(vs[i])
  <2>1. Components(y, v) = {<<ys[k], vs[k]>> : k \in DOMAIN ys}
    BY <1>1 DEF Components, NifRecord
  <2>2. \A i \in DOMAIN ys : <<ys[i], vs[i]>> \in Components(y, v)
    BY <2>1
  <2> QED
    BY <2>2 DEF PartsKept
<1> HIDE DEF f
<1>6. Len(ys) \in Nat /\ DOMAIN ys = 1..Len(ys)
  BY SeqParts
<1>7. Len(s) = 1 + Len(ys) /\ s[1] = tag /\ \A i \in DOMAIN ys : s[1 + i] = f[i]
  <2> DEFINE S == {f[i] : i \in DOMAIN f} \cup {tag}
  <2>1. f \in Seq(S) /\ <<tag>> \in Seq(S) /\ Len(<<tag>>) = 1 /\ <<tag>>[1] = tag
    BY <1>4, SeqParts, SeqDef DEF IsSeq
  <2> QED
    BY <1>4, <1>6, <2>1
<1> HIDE DEF s
<1>8. IsTuple(Tuple(s)) /\ Tuple(s)[2] = s
  BY DEF IsTuple, Tuple
<1>9. DecodeRecord(tag, ys, Tuple(s)) = DecodeFields(ys, Tuple(s), 1, Invalid)
  BY <1>6, <1>7, <1>8 DEF DecodeRecord, IsTag
<1>10. \A i \in DOMAIN ys : Dec(ys[i], Tuple(s)[2][1 + i]) = Ok(vs[i])
  BY <1>4, <1>5, <1>7, <1>8
<1>11. DecodeFields(ys, Tuple(s), 1, Invalid) = Ok(<<"tuple", vs>>)
  BY <1>7, <1>8, <1>10, KeptFields
<1> QED
  BY <1>1, <1>2, <1>3, <1>9, <1>11

\* Fields that are in a map are decoded.
LEMMA KeptFieldsOfMap ==
  ASSUME NEW ys, NEW vs \in FieldVals(ys), NEW m, DOMAIN ys \subseteq DOMAIN m,
         \A k \in DOMAIN ys : Dec(ys[k], m[k]) = Ok(vs[k])
  PROVE  DecodeMap(ys, Map(m)) = Ok(<<"struct", vs>>)
<1> DEFINE field(k) == LET f == MapGet(Map(m), k) IN IF IsOk(f) THEN Dec(ys[k], f[2]) ELSE f
           bad == {k \in DOMAIN ys : ~IsOk(field(k))}
<1>1. \A k \in DOMAIN ys : MapGet(Map(m), k) = Ok(m[k])
  BY DEF MapGet, Map
<1>2. \A k \in DOMAIN ys : field(k) = Ok(vs[k])
  BY <1>1, OkIs
<1>3. DecodeMap(ys, Map(m)) = IF bad = {} THEN Ok(<<"struct", [k \in DOMAIN ys |-> field(k)[2]]>>)
                                          ELSE field(CHOOSE k \in bad : TRUE)
  BY DEF DecodeMap
<1>4. bad = {}
  <2> HIDE DEF field
  <2> QED
    BY <1>2, OkIs
<1>5. [k \in DOMAIN ys |-> field(k)[2]] = [k \in DOMAIN ys |-> vs[k]]
  <2>1. \A k \in DOMAIN ys : field(k)[2] = vs[k]
    <3> HIDE DEF field
    <3> QED
      BY <1>2, OkIs
  <2> HIDE DEF field
  <2> QED
    BY <2>1
<1>6. [k \in DOMAIN ys |-> vs[k]] = vs
  BY DEF FieldVals
<1> HIDE DEF field, bad
<1> QED
  BY <1>3, <1>4, <1>5, <1>6

\* Where the fields are put into a map, and what was there before.
WithFields(m, ys, vs) == PutFields(m, ys, vs)[2]

\* The map that map_put makes of the fields, one after the other.
LEMMA PutFieldsIs ==
  ASSUME NEW ys, NEW vs, NEW m
  PROVE  /\ PutFields(m, ys, vs) = Map(WithFields(m, ys, vs))
         /\ DOMAIN WithFields(m, ys, vs) = DOMAIN m \cup DOMAIN ys
         /\ IsMap(WithFields(m, ys, vs))
<1>1. WithFields(m, ys, vs) =
        [k \in DOMAIN m \cup DOMAIN ys |-> IF k \in DOMAIN ys THEN Enc(ys[k], vs[k]) ELSE m[k]]
  BY DEF WithFields, PutFields, Map
<1>2. PutFields(m, ys, vs) = Map(WithFields(m, ys, vs))
  BY <1>1 DEF PutFields
<1> QED
  BY <1>1, <1>2 DEF IsMap

\* A key has the last value put under it.
LEMMA FieldsPut ==
  ASSUME NEW ys, NEW vs, NEW m, NEW k
  PROVE  /\ k \in DOMAIN ys => WithFields(m, ys, vs)[k] = Enc(ys[k], vs[k])
         /\ k \in DOMAIN m \ DOMAIN ys => WithFields(m, ys, vs)[k] = m[k]
BY DEF WithFields, PutFields, Map

\* Every field is found under its key.
LEMMA KeptMap ==
  ASSUME NEW ys, NEW y, y = NifMap(ys), NEW v \in ValuesOf(y), PartsKept(y, v)
  PROVE  Decode(y, Encode(y, v)) = Ok(v)
<1>1. PICK vs \in FieldVals(ys) : v = <<"struct", vs>>
  BY DEF ValuesOf, NifMap
<1> DEFINE none == [k \in {} |-> NilAtom]
<1> DEFINE p == WithFields(none, ys, vs)
<1>2. /\ PutFields(none, ys, vs) = Map(p) /\ DOMAIN p = DOMAIN none \cup DOMAIN ys
      /\ \A k \in DOMAIN ys : p[k] = Enc(ys[k], vs[k])
  <2> HIDE DEF none, p
  <2>1. p = WithFields(none, ys, vs)
    BY DEF p
  <2>2. PutFields(none, ys, vs) = Map(p)
    BY <2>1, PutFieldsIs
  <2>3. DOMAIN p = DOMAIN none \cup DOMAIN ys
    BY <2>1, PutFieldsIs
  <2>4. \A k \in DOMAIN ys : p[k] = Enc(ys[k], vs[k])
    BY <2>1, FieldsPut
  <2> QED
    BY <2>2, <2>3, <2>4
<1> HIDE DEF p
<1>3. Encode(y, v) = Map(p)
  BY <1>1, <1>2 DEF Encode, EncodeMap, NifMap
<1>4. Decode(y, Map(p)) = DecodeMap(ys, Map(p))
  BY DEF Decode, NifMap
<1>5. \A i \in DOMAIN ys : Dec(ys[i], Enc(ys[i], vs[i])) = Ok(vs[i])
  <2>1. Components(y, v) = {<<ys[k], vs[k]>> : k \in DOMAIN ys}
    BY <1>1 DEF Components, NifMap
  <2>2. \A i \in DOMAIN ys : <<ys[i], vs[i]>> \in Components(y, v)
    BY <2>1
  <2> QED
    BY <2>2 DEF PartsKept
<1>6. DecodeMap(ys, Map(p)) = Ok(<<"struct", vs>>)
  <2>1. DOMAIN ys \subseteq DOMAIN p /\ \A k \in DOMAIN ys : Dec(ys[k], p[k]) = Ok(vs[k])
    BY <1>2, <1>5
  <2> QED
    BY <2>1, KeptFieldsOfMap
<1> QED
  BY <1>1, <1>3, <1>4, <1>6

\* No field is under the module's key.
LEMMA KeptStruct ==
  ASSUME NEW module, IsTag(module), NEW ys, StructKey \notin DOMAIN ys,
         NEW y, y = NifStruct(module, ys), NEW v \in ValuesOf(y), PartsKept(y, v)
  PROVE  Decode(y, Encode(y, v)) = Ok(v)
<1>1. PICK vs \in FieldVals(ys) : v = <<"struct", vs>>
  BY DEF ValuesOf, NifStruct
<1> DEFINE m0 == [k \in {StructKey} |-> module]
<1> DEFINE p == WithFields(m0, ys, vs)
<1>2. /\ PutFields(m0, ys, vs) = Map(p) /\ DOMAIN p = DOMAIN m0 \cup DOMAIN ys
      /\ \A k \in DOMAIN ys : p[k] = Enc(ys[k], vs[k])
      /\ \A k \in DOMAIN m0 \ DOMAIN ys : p[k] = m0[k]
  <2> HIDE DEF m0, p
  <2>1. p = WithFields(m0, ys, vs)
    BY DEF p
  <2>2. PutFields(m0, ys, vs) = Map(p)
    BY <2>1, PutFieldsIs
  <2>3. DOMAIN p = DOMAIN m0 \cup DOMAIN ys
    BY <2>1, PutFieldsIs
  <2>4. \A k \in DOMAIN ys : p[k] = Enc(ys[k], vs[k])
    BY <2>1, FieldsPut
  <2>5. \A k \in DOMAIN m0 \ DOMAIN ys : p[k] = m0[k]
    BY <2>1, FieldsPut
  <2> QED
    BY <2>2, <2>3, <2>4, <2>5
<1> HIDE DEF p
<1>3. Encode(y, v) = Map(p)
  BY <1>1, <1>2 DEF Encode, EncodeStruct, NifStruct
<1>4. p[StructKey] = module /\ StructKey \in DOMAIN p
  BY <1>2
<1>5. MapGet(Map(p), StructKey) = Ok(module)
  BY <1>4 DEF MapGet, Map
<1>6. Decode(y, Map(p)) = DecodeStruct(module, ys, Map(p))
  BY DEF Decode, NifStruct
<1>7. DecodeStruct(module, ys, Map(p)) = DecodeMap(ys, Map(p))
  BY <1>5, OkIs DEF DecodeStruct, IsTag
<1>8. \A i \in DOMAIN ys : Dec(ys[i], Enc(ys[i], vs[i])) = Ok(vs[i])
  <2>1. Components(y, v) = {<<ys[k], vs[k]>> : k \in DOMAIN ys}
    BY <1>1 DEF Components, NifStruct
  <2>2. \A i \in DOMAIN ys : <<ys[i], vs[i]>> \in Components(y, v)
    BY <2>1
  <2> QED
    BY <2>2 DEF PartsKept
<1>9. DecodeMap(ys, Map(p)) = Ok(<<"struct", vs>>)
  <2>1. DOMAIN ys \subseteq DOMAIN p /\ \A k \in DOMAIN ys : Dec(ys[k], p[k]) = Ok(vs[k])
    BY <1>2, <1>8
  <2> QED
    BY <2>1, KeptFieldsOfMap
<1> QED
  BY <1>1, <1>3, <1>6, <1>7, <1>9

\* The tag of the pair says which codec the component has.
LEMMA KeptResult ==
  ASSUME NEW z, NEW e, NEW y, y = <<"result", z, e>>, NEW v \in ValuesOf(y), PartsKept(y, v)
  PROVE  Decode(y, Encode(y, v)) = Ok(v)
<1>1. \E w : v = <<"ok", w>> \/ v = <<"err", w>>
  BY DEF ValuesOf
<1>2. PICK w : v = <<"ok", w>> \/ v = <<"err", w>>
  BY <1>1
<1> DEFINE c   == IF v[1] = "ok" THEN z ELSE e
           tag == IF v[1] = "ok" THEN OkAtom ELSE ErrAtom
           t   == Tuple(<<tag, Enc(c, w)>>)
<1>3. OkAtom # ErrAtom
  BY DEF OkAtom, ErrAtom, Atom
<1>4. Encode(y, v) = t
  BY <1>2 DEF Encode, EncodeResult
<1>5. IsTuple(t) /\ Len(t[2]) = 2 /\ t[2][1] = tag /\ t[2][2] = Enc(c, w)
  BY DEF IsTuple, Tuple
<1>6. Dec(c, Enc(c, w)) = Ok(w)
  <2>1. <<c, w>> \in Components(y, v)
    BY <1>2 DEF Components
  <2> QED
    BY <2>1 DEF PartsKept
<1>7. Decode(y, t) = DecodeResult(z, e, t)
  BY DEF Decode
<1>8. tag \in {OkAtom, ErrAtom} /\ (IF tag = OkAtom THEN z ELSE e) = c
      /\ v = <<IF tag = OkAtom THEN "ok" ELSE "err", w>>
  BY <1>2, <1>3
<1> HIDE DEF t, c, tag
<1> QED
  BY <1>4, <1>5, <1>6, <1>7, <1>8, OkIs DEF DecodeResult

\* The first variant that takes the term is the one that was encoded, if none
\* before it takes it.
LEMMA KeptUntagged ==
  ASSUME NEW ys, IsSeq(ys), NEW y, y = NifUntaggedEnum(ys), NEW v \in ValuesOf(y),
         PartsKept(y, v), NoPanicBefore(y, v), ~Ambiguous(y, v)
  PROVE  Decode(y, Encode(y, v)) = Ok(v)
<1>1. PICK n \in DOMAIN ys : \E w : v = <<"untagged", n, w>>
  BY DEF ValuesOf, NifUntaggedEnum
<1>2. PICK w : v = <<"untagged", n, w>>
  BY <1>1
<1> DEFINE t == Enc(ys[n], w)
           stops == {i \in DOMAIN ys : IsOk(Dec(ys[i], t)) \/ Dec(ys[i], t) = Panics}
<1>3. Dec(ys[n], t) = Ok(w)
  <2>1. <<ys[n], w>> \in Components(y, v)
    BY <1>2 DEF Components, NifUntaggedEnum
  <2> QED
    BY <2>1 DEF PartsKept
<1>4. \A i \in 1..(n - 1) : ~IsOk(Dec(ys[i], t)) /\ Dec(ys[i], t) # Panics
  BY <1>2 DEF Ambiguous, NoPanicBefore, NifUntaggedEnum
<1>5. Encode(y, v) = t
  BY <1>2 DEF Encode, EncodeUntagged, NifUntaggedEnum
<1>6. Decode(y, t) = DecodeUntagged(ys, t)
  BY DEF Decode, NifUntaggedEnum
<1>7. n \in stops /\ \A k \in stops : n <= k
  BY <1>3, <1>4, OkIs, SeqParts
<1>8. \A j \in stops : (\A k \in stops : j <= k) => j = n
  <2>1. stops \subseteq Nat
    BY SeqParts
  <2> HIDE DEF stops
  <2> QED
    BY <1>7, <2>1
<1>9. (CHOOSE j \in stops : \A k \in stops : j <= k) = n
  <2> HIDE DEF stops
  <2> QED
    BY <1>7, <1>8
<1>10. stops # {}
  BY <1>7
<1>11. DecodeUntagged(ys, t) = Ok(<<"untagged", n, w>>)
  <2>1. DecodeUntagged(ys, t) =
          IF stops = {} THEN Invalid
          ELSE LET i == CHOOSE j \in stops : \A k \in stops : j <= k
                   r == Dec(ys[i], t)
               IN  IF IsOk(r) THEN Ok(<<"untagged", i, r[2]>>) ELSE Panics
    BY DEF DecodeUntagged
  <2> HIDE DEF stops, t
  <2> QED
    BY <1>3, <1>9, <1>10, <2>1, OkIs
<1> QED
  BY <1>2, <1>5, <1>6, <1>11

\* Of a value that is not ambiguous and, where it is a name, is that of an atom,
\* the codec of a type makes the value again, if those of its components do: what
\* a NIF returns is what the function that is called with it gets.
THEOREM RoundTrips ==
  ASSUME NEW y, IsType(y), NEW v \in ValuesOf(y), MaxList \in Nat,
         ~Ambiguous(y, v), ~NoAtom(y, v), PartsKept(y, v), NoPanicBefore(y, v)
  PROVE  Decode(y, Encode(y, v)) = Ok(v)
<1>1. CASE y \in {<<"wide">>, <<"byte">>, <<"bool">>, <<"str">>, <<"name">>}
  BY <1>1, KeptNumber, KeptBool, KeptStr, KeptName
<1>2. CASE \E names : y = NifUnitEnum(names) /\ \A a \in names : IsTag(a)
  BY <1>2, KeptUnit
<1>3. CASE \E z : y = <<"option", z>>
  BY <1>3, KeptOption
<1>4. CASE \E z : y = <<"vec", z>>
  BY <1>4, KeptVec
<1>5. CASE \E z, e : y = <<"result", z, e>>
  BY <1>5, KeptResult
<1>6. CASE \E ys : y = NifTuple(ys) /\ IsSeq(ys)
  BY <1>6, KeptTuple
<1>7. CASE \E tag, ys : y = NifRecord(tag, ys) /\ IsTag(tag) /\ IsSeq(ys)
  BY <1>7, KeptRecord
<1>8. CASE \E ys : y = NifMap(ys)
  BY <1>8, KeptMap
<1>9. CASE \E module, ys : y = NifStruct(module, ys) /\ IsTag(module) /\ StructKey \notin DOMAIN ys
  BY <1>9, KeptStruct
<1>10. CASE \E ys : y = NifUntaggedEnum(ys) /\ IsSeq(ys)
  BY <1>10, KeptUntagged
<1> QED
  BY <1>1, <1>2, <1>3, <1>4, <1>5, <1>6, <1>7, <1>8, <1>9, <1>10 DEF IsType

-----------------------------------------------------------------------------
(* A term that is decoded and encoded *)

\* The codecs of the components make those terms again that they take.
PartsExact(y, t) ==
  \A p \in Parts(y, t) : IsOk(Dec(p[1], p[2])) => Enc(p[1], Dec(p[1], p[2])[2]) = p[2]

\* The kind of a term tells what it is made of.
LEMMA TermIs ==
  ASSUME NEW t, IsTerm(t)
  PROVE  /\ t[1] = "num" => t = Num(t[2])
         /\ t[1] = "atom" => t = Atom(t[2]) /\ ~(Len(t[2]) > MaxName)
         /\ t[1] = "tuple" => t = Tuple(t[2]) /\ IsSeq(t[2])
         /\ t[1] = "list" => t = List(t[2], t[3]) /\ IsSeq(t[2])
         /\ t[1] = "map" => t = Map(t[2]) /\ IsMap(t[2])
<1>1. CASE \E n : t = Num(n)
  BY <1>1 DEF Num
<1>2. CASE \E b : t = Bin(b)
  BY <1>2 DEF Bin
<1>3. CASE \E a : t = Atom(a) /\ ~(Len(a) > MaxName)
  BY <1>3 DEF Atom
<1>4. CASE \E s : t = Tuple(s) /\ IsSeq(s)
  BY <1>4 DEF Tuple
<1>5. CASE \E s, rest : t = List(s, rest) /\ IsSeq(s)
  BY <1>5 DEF List
<1>6. CASE \E m : t = Map(m) /\ IsMap(m)
  BY <1>6 DEF Map
<1> QED
  BY <1>1, <1>2, <1>3, <1>4, <1>5, <1>6 DEF IsTerm

\* An integer out of range is refused; a wider one is not cut off.
LEMMA ExactNumber ==
  ASSUME NEW kind \in {"wide", "byte"}, NEW y, y = <<kind>>, NEW t, IsTerm(t),
         IsOk(Decode(y, t)), ~Lossy(y, t)
  PROVE  Encode(y, Decode(y, t)[2]) = t
<1> USE NifTermsAssumption
<1>1. Decode(y, t) = DecodeNumber(kind, t)
  BY DEF Decode
<1>2. t[1] = "num" /\ t[2] \in 0..(Wide - 1)
  BY <1>1, OkIs DEF DecodeNumber
<1>3. t = Num(t[2])
  BY <1>2, TermIs
<1>4. Decode(y, t)[2] = <<"n", t[2]>>
  <2>1. CASE kind = "wide"
    BY <1>1, <1>2, <2>1, OkIs DEF DecodeNumber
  <2>2. CASE kind = "byte"
    <3>1. ~(t[2] >= Byte)
      BY <2>2 DEF Lossy
    <3>2. t[2] % Byte = t[2]
      BY <1>2, <3>1
    <3> QED
      BY <1>1, <1>2, <2>2, <3>2, OkIs DEF DecodeNumber
  <2> QED
    BY <2>1, <2>2
<1> QED
  BY <1>3, <1>4 DEF Encode, EncodeNumber

\* Atoms other than the two are what Lossy names.
LEMMA ExactBool ==
  ASSUME NEW y, y = <<"bool">>, NEW t, ~Lossy(y, t)
  PROVE  Encode(y, Decode(y, t)[2]) = t
<1>1. t \in {True, False}
  BY DEF Lossy
<1>2. Decode(y, t)[2] = <<"b", t \notin {False, NilAtom}>>
  BY OkIs DEF Decode, DecodeBool
<1>3. True \notin {False, NilAtom} /\ False \in {False, NilAtom}
  BY DEF True, False, NilAtom, Atom
<1>4. Encode(y, Decode(y, t)[2]) = IF t \notin {False, NilAtom} THEN True ELSE False
  <2>1. \A b \in BOOLEAN : Encode(y, <<"b", b>>) = IF b THEN True ELSE False
    BY DEF Encode, EncodeBool
  <2> QED
    BY <1>2, <2>1
<1> QED
  BY <1>1, <1>3, <1>4

\* A binary that is not UTF-8 is refused.
LEMMA ExactStr ==
  ASSUME NEW y, y = <<"str">>, NEW t, IsOk(Decode(y, t))
  PROVE  Encode(y, Decode(y, t)[2]) = t
<1>1. Decode(y, t) = DecodeStr(t)
  BY DEF Decode
<1>2. t = Bin("utf8") /\ Decode(y, t) = Ok(<<"s", "utf8">>)
  BY <1>1, OkIs DEF DecodeStr
<1> QED
  BY <1>2, OkIs DEF Encode, EncodeStr

\* Only an atom with that name is taken.
LEMMA ExactName ==
  ASSUME NEW y, y = <<"name">>, NEW t, IsTerm(t), IsOk(Decode(y, t))
  PROVE  Encode(y, Decode(y, t)[2]) = t
<1>1. Decode(y, t) = DecodeName(t)
  BY DEF Decode
<1>2. /\ IsAtom(t) /\ ~(\E i \in DOMAIN t[2] : t[2][i] = "wide")
      /\ Decode(y, t) = Ok(<<"name", t[2]>>)
  BY <1>1, OkIs DEF DecodeName
<1>3. FromStr(t[2]) = Ok(t)
  BY <1>2, TermIs DEF IsAtom, FromStr
<1> QED
  BY <1>2, <1>3, OkIs DEF Encode

\* Only the atom of a variant is taken.
LEMMA ExactUnit ==
  ASSUME NEW names, NEW y, y = NifUnitEnum(names), NEW t, IsOk(Decode(y, t))
  PROVE  Encode(y, Decode(y, t)[2]) = t
<1>1. Decode(y, t) = DecodeUnit(names, t)
  BY DEF Decode, NifUnitEnum
<1>2. Decode(y, t) = Ok(<<"unit", t>>)
  BY <1>1, OkIs DEF DecodeUnit
<1> QED
  BY <1>2, OkIs DEF Encode, EncodeUnit, NifUnitEnum

\* nil is None unless the component takes it.
LEMMA ExactOption ==
  ASSUME NEW z, NEW y, y = <<"option", z>>, NEW t, IsOk(Decode(y, t)), PartsExact(y, t)
  PROVE  Encode(y, Decode(y, t)[2]) = t
<1> DEFINE v == Decode(y, t)[2]
<1>1. Decode(y, t) = DecodeOption(z, t)
  BY DEF Decode
<1>2. Encode(y, v) = EncodeOption(z, v)
  BY DEF Encode
<1>3. CASE IsOk(Dec(z, t))
  <2>1. v = Some(Dec(z, t)[2])
    BY <1>1, <1>3, OkIs DEF DecodeOption
  <2>2. <<z, t>> \in Parts(y, t)
    BY DEF Parts
  <2>3. Enc(z, Dec(z, t)[2]) = t
    BY <1>3, <2>2 DEF PartsExact
  <2>4. v # None /\ v[2] = Dec(z, t)[2]
    <3> HIDE DEF v
    <3> QED
      BY <2>1 DEF Some, None
  <2> QED
    BY <1>2, <2>3, <2>4 DEF EncodeOption
<1>4. CASE ~IsOk(Dec(z, t))
  <2>1. t = NilAtom /\ Decode(y, t) = Ok(None)
    BY <1>1, <1>4, OkIs DEF DecodeOption
  <2> QED
    BY <1>2, <2>1, OkIs DEF EncodeOption
<1> QED
  BY <1>3, <1>4

\* No cell is passed over, and the list ends in [].
LEMMA ExactVec ==
  ASSUME NEW z, NEW y, y = <<"vec", z>>, NEW t, IsTerm(t), IsOk(Decode(y, t)),
         PartsExact(y, t)
  PROVE  Encode(y, Decode(y, t)[2]) = t
<1>1. Decode(y, t) = DecodeVec(z, t)
  BY DEF Decode
<1>2. t[1] = "list"
  BY <1>1, OkIs DEF DecodeVec
<1>3. t = List(t[2], t[3]) /\ IsSeq(t[2])
  BY <1>2, TermIs
<1> DEFINE s  == t[2]
           ds == [i \in DOMAIN s |-> Dec(z, s[i])]
           rs == ds \o (IF t[3] = End THEN <<>> ELSE <<Panics>>)
<1>4. Decode(y, t) = AllOrFirst(rs, "vec")
  BY <1>1, <1>2 DEF DecodeVec
<1>5. Len(s) \in Nat /\ DOMAIN s = 1..Len(s) /\ s = [i \in 1..Len(s) |-> s[i]]
  BY <1>3, SeqParts
<1>6. IsSeq(ds) /\ Len(ds) = Len(s) /\ DOMAIN ds = 1..Len(s)
  <2>1. ds = [i \in 1..Len(s) |-> ds[i]] /\ DOMAIN ds = 1..Len(s)
    BY <1>5
  <2> HIDE DEF ds
  <2> QED
    BY <1>5, <2>1, SeqOf
<1>7. t[3] = End
  <2> SUFFICES ASSUME t[3] # End PROVE FALSE
    OBVIOUS
  <2> HIDE DEF ds
  <2>1. rs = ds \o <<Panics>>
    OBVIOUS
  <2> DEFINE S == {ds[i] : i \in DOMAIN ds} \cup {Panics}
  <2>2. ds \in Seq(S) /\ <<Panics>> \in Seq(S)
    BY <1>6, SeqDef, SeqParts DEF IsSeq
  <2>3. Len(rs) = Len(s) + 1 /\ rs[Len(s) + 1] = Panics /\ DOMAIN rs = 1..(Len(s) + 1) /\ rs \in Seq(S)
    BY <1>5, <1>6, <2>1, <2>2
  <2>4. rs = [i \in 1..(Len(s) + 1) |-> rs[i]]
    BY <2>3
  <2> HIDE DEF rs
  <2>5. IsSeq(rs)
    BY <1>5, <2>4, SeqOf
  <2>6. IsOk(AllOrFirst(rs, "vec"))
    BY <1>4
  <2>7. \A i \in DOMAIN rs : IsOk(rs[i])
    BY <2>5, <2>6, AllOrFirstIs
  <2>8. IsOk(Panics)
    BY <1>5, <2>3, <2>7
  <2> QED
    BY <2>8, OkIs
<1>8. rs = ds
  <2> HIDE DEF ds
  <2> QED
    BY <1>6, <1>7 DEF IsSeq
<1>9. \A i \in 1..Len(s) : IsOk(ds[i]) /\ Decode(y, t) = Ok(<<"vec", [j \in 1..Len(s) |-> ds[j][2]]>>)
  <2> HIDE DEF rs, ds
  <2>1. IsOk(AllOrFirst(ds, "vec"))
    BY <1>4, <1>8
  <2>2. \A i \in DOMAIN ds : IsOk(ds[i])
    BY <1>6, <2>1, AllOrFirstIs
  <2>3. AllOrFirst(ds, "vec") = Ok(<<"vec", [j \in DOMAIN ds |-> ds[j][2]]>>)
    BY <1>6, <2>2, AllOrFirstIs
  <2> QED
    BY <1>4, <1>6, <1>8, <2>2, <2>3
<1>10. \A i \in 1..Len(s) : Enc(z, ds[i][2]) = s[i]
  <2>1. \A i \in 1..Len(s) : <<z, s[i]>> \in Parts(y, t)
    BY <1>5 DEF Parts
  <2>2. \A i \in 1..Len(s) : IsOk(Dec(z, s[i])) => Enc(z, Dec(z, s[i])[2]) = s[i]
    BY <2>1 DEF PartsExact
  <2>3. \A i \in 1..Len(s) : ds[i] = Dec(z, s[i])
    BY <1>5
  <2> HIDE DEF ds
  <2> QED
    BY <1>9, <2>2, <2>3
<1>11. Encode(y, Decode(y, t)[2]) = t
  <2> DEFINE vs == [j \in 1..Len(s) |-> ds[j][2]]
  <2>1. Decode(y, t) = Ok(<<"vec", vs>>)
    <3>1. AllOrFirst(ds, "vec") = Ok(<<"vec", [j \in DOMAIN ds |-> ds[j][2]]>>)
      <4> HIDE DEF rs, ds
      <4> QED
        BY <1>6, <1>9, AllOrFirstIs
    <3> HIDE DEF rs, ds
    <3> QED
      BY <1>4, <1>6, <1>8, <3>1
  <2>2. Encode(y, <<"vec", vs>>) = List([i \in DOMAIN vs |-> Enc(z, vs[i])], End)
    BY DEF Encode, EncodeVec
  <2>3. [i \in DOMAIN vs |-> Enc(z, vs[i])] = s
    <3> HIDE DEF ds
    <3> QED
      BY <1>5, <1>10
  <2> HIDE DEF vs
  <2> QED
    BY <1>3, <1>7, <2>1, <2>2, <2>3, OkIs
<1> QED
  BY <1>11

\* What fields that are decoded are, and that they are encoded to their elements.
LEMMA ExactFields ==
  ASSUME NEW ys, IsSeq(ys), NEW t, IsTuple(t), NEW from \in Nat, NEW error, ~IsOk(error),
         IsOk(DecodeFields(ys, t, from, error)),
         \A i \in DOMAIN ys : IsOk(Dec(ys[i], t[2][from + i])) =>
                                Enc(ys[i], Dec(ys[i], t[2][from + i])[2]) = t[2][from + i]
  PROVE  /\ Len(t[2]) = from + Len(ys)
         /\ DecodeFields(ys, t, from, error) = Ok(<<"tuple", DecodeFields(ys, t, from, error)[2][2]>>)
         /\ EncodeAll(ys, DecodeFields(ys, t, from, error)[2][2]) = [i \in 1..Len(ys) |-> t[2][from + i]]
<1> DEFINE rs == [i \in DOMAIN ys |-> Dec(ys[i], t[2][from + i])]
           vs == [i \in DOMAIN rs |-> rs[i][2]]
<1>1. Len(ys) \in Nat /\ DOMAIN ys = 1..Len(ys)
  BY SeqParts
<1>2. Len(t[2]) = from + Len(ys)
  BY DEF DecodeFields
<1>3. DecodeFields(ys, t, from, error) = AllOrFirst(rs, "tuple")
  BY <1>2 DEF DecodeFields
<1>4. \A i \in 1..Len(ys) : rs[i] = Dec(ys[i], t[2][from + i])
  BY <1>1
<1>5. DOMAIN rs = 1..Len(ys) /\ rs = [i \in 1..Len(ys) |-> rs[i]]
  BY <1>1
<1> HIDE DEF rs
<1>6. IsSeq(rs)
  BY <1>1, <1>5, SeqOf
<1>7. IsOk(AllOrFirst(rs, "tuple"))
  BY <1>3
<1>8. \A i \in DOMAIN rs : IsOk(rs[i])
  BY <1>6, <1>7, AllOrFirstIs
<1>9. AllOrFirst(rs, "tuple") = Ok(<<"tuple", vs>>)
  BY <1>6, <1>8, AllOrFirstIs
<1>10. \A i \in 1..Len(ys) : Enc(ys[i], rs[i][2]) = t[2][from + i]
  BY <1>1, <1>4, <1>5, <1>8
<1>11. EncodeAll(ys, vs) = [i \in 1..Len(ys) |-> t[2][from + i]]
  BY <1>5, <1>10 DEF EncodeAll
<1> HIDE DEF vs
<1>12. DecodeFields(ys, t, from, error) = Ok(<<"tuple", vs>>)
  BY <1>3, <1>9
<1>13. DecodeFields(ys, t, from, error)[2][2] = vs
  BY <1>12, OkIs
<1> QED
  BY <1>2, <1>11, <1>12, <1>13

\* A tuple of another size is refused.
LEMMA ExactTuple ==
  ASSUME NEW ys, IsSeq(ys), NEW y, y = NifTuple(ys), NEW t, IsTerm(t), IsOk(Decode(y, t)),
         PartsExact(y, t)
  PROVE  Encode(y, Decode(y, t)[2]) = t
<1>1. Decode(y, t) = DecodeFields(ys, t, 0, BadArg)
  BY DEF Decode, DecodeTuple, NifTuple
<1>2. IsTuple(t)
  BY <1>1, OkIs DEF DecodeFields
<1>3. t = Tuple(t[2]) /\ IsSeq(t[2])
  BY <1>2, TermIs DEF IsTuple
<1>4. Len(ys) \in Nat /\ DOMAIN ys = 1..Len(ys)
  BY SeqParts
<1>5. \A i \in DOMAIN ys : IsOk(Dec(ys[i], t[2][i])) => Enc(ys[i], Dec(ys[i], t[2][i])[2]) = t[2][i]
  <2>1. Parts(y, t) = {<<ys[i], t[2][i]>> : i \in DOMAIN ys}
    BY DEF Parts, NifTuple
  <2>2. \A i \in DOMAIN ys : <<ys[i], t[2][i]>> \in Parts(y, t)
    BY <2>1
  <2> QED
    BY <2>2 DEF PartsExact
<1>6. \A i \in DOMAIN ys : t[2][0 + i] = t[2][i]
  BY <1>4
<1> DEFINE vs == DecodeFields(ys, t, 0, BadArg)[2][2]
<1>7. /\ Len(t[2]) = 0 + Len(ys)
      /\ DecodeFields(ys, t, 0, BadArg) = Ok(<<"tuple", vs>>)
      /\ EncodeAll(ys, vs) = [i \in 1..Len(ys) |-> t[2][0 + i]]
  <2>1. \A i \in DOMAIN ys : IsOk(Dec(ys[i], t[2][0 + i])) =>
                               Enc(ys[i], Dec(ys[i], t[2][0 + i])[2]) = t[2][0 + i]
    BY <1>5, <1>6
  <2>2. ~IsOk(BadArg) /\ IsOk(DecodeFields(ys, t, 0, BadArg)) /\ 0 \in Nat
    BY <1>1, OkIs
  <2> QED
    BY <1>2, <2>1, <2>2, ExactFields
<1> HIDE DEF vs
<1>9. EncodeAll(ys, vs) = t[2]
  <2>1. t[2] = [i \in 1..Len(ys) |-> t[2][i]]
    <3>1. Len(t[2]) = Len(ys)
      BY <1>4, <1>7
    <3>2. t[2] = [i \in 1..Len(t[2]) |-> t[2][i]]
      BY <1>3, SeqParts
    <3> QED
      BY <3>1, <3>2
  <2>2. EncodeAll(ys, vs) = [i \in 1..Len(ys) |-> t[2][i]]
    BY <1>4, <1>6, <1>7
  <2> QED
    BY <2>1, <2>2
<1>10. Decode(y, t)[2] = <<"tuple", vs>>
  BY <1>1, <1>7, OkIs
<1>11. Encode(y, <<"tuple", vs>>) = Tuple(EncodeAll(ys, vs))
  BY DEF Encode, EncodeTuple, NifTuple
<1> QED
  BY <1>3, <1>9, <1>10, <1>11

\* A tuple of another size or with another tag is refused.
LEMMA ExactRecord ==
  ASSUME NEW tag, NEW ys, IsSeq(ys), NEW y, y = NifRecord(tag, ys), NEW t, IsTerm(t),
         IsOk(Decode(y, t)), PartsExact(y, t)
  PROVE  Encode(y, Decode(y, t)[2]) = t
<1>1. Decode(y, t) = DecodeRecord(tag, ys, t)
  BY DEF Decode, NifRecord
<1>2. Len(ys) \in Nat /\ DOMAIN ys = 1..Len(ys)
  BY SeqParts
<1>3. /\ DecodeRecord(tag, ys, t) = DecodeFields(ys, t, 1, Invalid)
      /\ IsTuple(t) /\ Len(t[2]) = Len(ys) + 1 => t[2][1] = tag
  BY <1>1, OkIs DEF DecodeRecord
<1>4. IsTuple(t)
  BY <1>1, <1>3, OkIs DEF DecodeFields
<1>5. t = Tuple(t[2]) /\ IsSeq(t[2])
  BY <1>4, TermIs DEF IsTuple
<1>6. \A i \in DOMAIN ys : IsOk(Dec(ys[i], t[2][i + 1])) =>
                             Enc(ys[i], Dec(ys[i], t[2][i + 1])[2]) = t[2][i + 1]
  <2>1. Parts(y, t) = {<<ys[i], t[2][i + 1]>> : i \in DOMAIN ys}
    BY DEF Parts, NifRecord
  <2>2. \A i \in DOMAIN ys : <<ys[i], t[2][i + 1]>> \in Parts(y, t)
    BY <2>1
  <2> QED
    BY <2>2 DEF PartsExact
<1> DEFINE vs == DecodeFields(ys, t, 1, Invalid)[2][2]
<1>7. /\ Len(t[2]) = 1 + Len(ys)
      /\ DecodeFields(ys, t, 1, Invalid) = Ok(<<"tuple", vs>>)
      /\ EncodeAll(ys, vs) = [i \in 1..Len(ys) |-> t[2][1 + i]]
  <2>1. \A i \in DOMAIN ys : IsOk(Dec(ys[i], t[2][1 + i])) =>
                               Enc(ys[i], Dec(ys[i], t[2][1 + i])[2]) = t[2][1 + i]
    <3>1. \A i \in DOMAIN ys : 1 + i = i + 1
      BY <1>2
    <3> QED
      BY <1>6, <3>1
  <2>2. ~IsOk(Invalid) /\ IsOk(DecodeFields(ys, t, 1, Invalid)) /\ 1 \in Nat
    BY <1>1, <1>3, OkIs
  <2> QED
    BY <1>4, <2>1, <2>2, ExactFields
<1> HIDE DEF vs
<1> DEFINE f == EncodeAll(ys, vs)
<1>9. t[2][1] = tag
  BY <1>2, <1>3, <1>4, <1>7
<1>10. <<tag>> \o f = t[2]
  <2>1. f = [i \in 1..Len(ys) |-> f[i]] /\ \A i \in 1..Len(ys) : f[i] = t[2][1 + i]
    BY <1>7
  <2> DEFINE S == {f[i] : i \in DOMAIN f} \cup {tag}
  <2> HIDE DEF f
  <2>2. IsSeq(f) /\ Len(f) = Len(ys)
    BY <1>2, <2>1, SeqOf
  <2>3. f \in Seq(S) /\ <<tag>> \in Seq(S)
    BY <2>2, SeqDef, SeqParts DEF IsSeq
  <2>4. /\ DOMAIN (<<tag>> \o f) = 1..(1 + Len(ys))
        /\ (<<tag>> \o f)[1] = tag
        /\ \A i \in 2..(1 + Len(ys)) : (<<tag>> \o f)[i] = f[i - 1]
    BY <1>2, <2>2, <2>3
  <2>5. \A i \in 2..(1 + Len(ys)) : f[i - 1] = t[2][i]
    BY <1>2, <2>1
  <2>6. DOMAIN t[2] = 1..(1 + Len(ys)) /\ t[2] = [i \in 1..(1 + Len(ys)) |-> t[2][i]]
    BY <1>5, <1>7, SeqParts
  <2>7. \A i \in 1..(1 + Len(ys)) : (<<tag>> \o f)[i] = t[2][i]
    BY <1>2, <1>9, <2>4, <2>5
  <2>8. <<tag>> \o f = [i \in 1..(1 + Len(ys)) |-> (<<tag>> \o f)[i]]
    BY <2>3, <2>4
  <2> QED
    BY <2>6, <2>7, <2>8
<1>11. Decode(y, t)[2] = <<"tuple", vs>>
  BY <1>1, <1>3, <1>7, OkIs
<1>12. Encode(y, <<"tuple", vs>>) = Tuple(<<tag>> \o f)
  BY DEF Encode, EncodeRecord, NifRecord
<1> QED
  BY <1>5, <1>10, <1>11, <1>12

\* A map that is decoded has all the keys.
LEMMA FieldsFound ==
  ASSUME NEW ys, NEW t, IsOk(DecodeMap(ys, t))
  PROVE  \A k \in DOMAIN ys : t[1] = "map" /\ k \in DOMAIN t[2]
<1> DEFINE field(k) == LET f == MapGet(t, k) IN IF IsOk(f) THEN Dec(ys[k], f[2]) ELSE f
           bad == {k \in DOMAIN ys : ~IsOk(field(k))}
           fs == [k \in DOMAIN ys |-> field(k)[2]]
<1>1. DecodeMap(ys, t) = IF bad = {} THEN Ok(<<"struct", fs>>) ELSE field(CHOOSE k \in bad : TRUE)
  BY DEF DecodeMap
<1>2. \A k \in bad : ~IsOk(field(k))
  OBVIOUS
<1>3. bad = {}
  <2> HIDE DEF bad, fs, field
  <2> QED
    BY <1>1, <1>2
<1>4. \A k \in DOMAIN ys : IsOk(field(k))
  <2> HIDE DEF field
  <2> QED
    BY <1>3
<1>5. \A k \in DOMAIN ys : IsOk(MapGet(t, k))
  BY <1>4
<1> QED
  BY <1>5, OkIs DEF MapGet

\* What the fields of a map that are decoded are, and that they are encoded to
\* what the map has under their keys.
LEMMA ExactFieldsOfMap ==
  ASSUME NEW ys, NEW t, IsOk(DecodeMap(ys, t)), DOMAIN ys # {} \/ t[1] = "map",
         \A k \in DOMAIN ys : IsOk(Dec(ys[k], t[2][k])) => Enc(ys[k], Dec(ys[k], t[2][k])[2]) = t[2][k]
  PROVE  /\ t[1] = "map" /\ DOMAIN ys \subseteq DOMAIN t[2]
         /\ DecodeMap(ys, t) = Ok(<<"struct", DecodeMap(ys, t)[2][2]>>)
         /\ \A k \in DOMAIN ys : Enc(ys[k], DecodeMap(ys, t)[2][2][k]) = t[2][k]
<1> DEFINE field(k) == LET f == MapGet(t, k) IN IF IsOk(f) THEN Dec(ys[k], f[2]) ELSE f
           bad == {k \in DOMAIN ys : ~IsOk(field(k))}
           fs == [k \in DOMAIN ys |-> field(k)[2]]
<1>1. DecodeMap(ys, t) = IF bad = {} THEN Ok(<<"struct", fs>>) ELSE field(CHOOSE k \in bad : TRUE)
  BY DEF DecodeMap
<1>2. bad = {}
  <2> SUFFICES ASSUME bad # {} PROVE FALSE
    OBVIOUS
  <2>1. \A k \in bad : ~IsOk(field(k))
    OBVIOUS
  <2> HIDE DEF bad, fs, field
  <2>2. (CHOOSE k \in bad : TRUE) \in bad
    OBVIOUS
  <2> QED
    BY <1>1, <2>1, <2>2
<1>3. DecodeMap(ys, t) = Ok(<<"struct", fs>>)
  <2> HIDE DEF bad, fs, field
  <2> QED
    BY <1>1, <1>2
<1>4. \A k \in DOMAIN ys : IsOk(field(k))
  <2> HIDE DEF field
  <2> QED
    BY <1>2
<1>6. \A k \in DOMAIN ys : t[1] = "map" /\ k \in DOMAIN t[2] /\ MapGet(t, k) = Ok(t[2][k])
  BY FieldsFound DEF MapGet
<1>7. \A k \in DOMAIN ys : field(k) = Dec(ys[k], t[2][k])
  BY <1>6, OkIs
<1>8. \A k \in DOMAIN ys : Enc(ys[k], fs[k]) = t[2][k]
  <2>1. \A k \in DOMAIN ys : Enc(ys[k], field(k)[2]) = t[2][k]
    <3> HIDE DEF field
    <3> QED
      BY <1>4, <1>7
  <2>2. \A k \in DOMAIN ys : fs[k] = field(k)[2]
    <3> HIDE DEF field
    <3> QED
      OBVIOUS
  <2> HIDE DEF fs, field
  <2> QED
    BY <2>1, <2>2
<1> HIDE DEF fs
<1>9. DecodeMap(ys, t)[2][2] = fs
  BY <1>3, OkIs
<1> QED
  BY <1>3, <1>6, <1>8, <1>9

\* Fields and old keys are all there is in a map.
LEMMA WithFieldsIs ==
  ASSUME NEW ys, NEW vs, NEW m, NEW p, IsMap(p), DOMAIN p = DOMAIN m \cup DOMAIN ys,
         \A k \in DOMAIN ys : Enc(ys[k], vs[k]) = p[k],
         \A k \in DOMAIN m \ DOMAIN ys : m[k] = p[k]
  PROVE  PutFields(m, ys, vs) = Map(p)
<1> DEFINE q == WithFields(m, ys, vs)
<1>1. PutFields(m, ys, vs) = Map(q) /\ DOMAIN q = DOMAIN m \cup DOMAIN ys /\ IsMap(q)
  BY PutFieldsIs
<1>2. \A k \in DOMAIN p : q[k] = p[k]
  BY FieldsPut
<1> HIDE DEF q
<1>3. q = p
  <2>1. q = [k \in DOMAIN p |-> q[k]] /\ p = [k \in DOMAIN p |-> p[k]]
    BY <1>1 DEF IsMap
  <2> QED
    BY <1>2, <2>1
<1> QED
  BY <1>1, <1>3

\* A map with a key that is no field is what Lossy names.
LEMMA ExactMap ==
  ASSUME NEW ys, DOMAIN ys # {}, NEW y, y = NifMap(ys), NEW t, IsTerm(t), IsOk(Decode(y, t)),
         PartsExact(y, t), ~Lossy(y, t)
  PROVE  Encode(y, Decode(y, t)[2]) = t
<1>1. Decode(y, t) = DecodeMap(ys, t)
  BY DEF Decode, NifMap
<1>2. \A k \in DOMAIN ys : IsOk(Dec(ys[k], t[2][k])) => Enc(ys[k], Dec(ys[k], t[2][k])[2]) = t[2][k]
  <2>1. Parts(y, t) = {<<ys[k], t[2][k]>> : k \in DOMAIN ys}
    BY DEF Parts, NifMap
  <2>2. \A k \in DOMAIN ys : <<ys[k], t[2][k]>> \in Parts(y, t)
    BY <2>1
  <2> QED
    BY <2>2 DEF PartsExact
<1> DEFINE vs == DecodeMap(ys, t)[2][2]
           none == [k \in {} |-> NilAtom]
<1>3. /\ t[1] = "map" /\ DOMAIN ys \subseteq DOMAIN t[2]
      /\ DecodeMap(ys, t) = Ok(<<"struct", vs>>)
      /\ \A k \in DOMAIN ys : Enc(ys[k], vs[k]) = t[2][k]
  BY <1>1, <1>2, ExactFieldsOfMap
<1> HIDE DEF vs
<1>4. t = Map(t[2]) /\ IsMap(t[2])
  BY <1>3, TermIs
<1>5. DOMAIN t[2] = DOMAIN ys
  BY DEF Lossy, NifMap
<1>6. Decode(y, t)[2] = <<"struct", vs>>
  BY <1>1, <1>3, OkIs
<1>7. Encode(y, <<"struct", vs>>) = PutFields(none, ys, vs)
  BY DEF Encode, EncodeMap, NifMap
<1>8. DOMAIN none = {}
  OBVIOUS
<1> HIDE DEF none
<1> DEFINE p == t[2]
<1>9. /\ IsMap(p) /\ DOMAIN p = DOMAIN none \cup DOMAIN ys
      /\ \A k \in DOMAIN ys : Enc(ys[k], vs[k]) = p[k]
      /\ \A k \in DOMAIN none \ DOMAIN ys : none[k] = p[k]
  BY <1>3, <1>4, <1>5, <1>8
<1>10. PutFields(none, ys, vs) = Map(p)
  <2> HIDE DEF p
  <2> QED
    BY <1>9, WithFieldsIs
<1> QED
  BY <1>4, <1>6, <1>7, <1>10

\* Another module is refused, and other keys are what Lossy names.
LEMMA ExactStruct ==
  ASSUME NEW module, NEW ys, StructKey \notin DOMAIN ys, NEW y, y = NifStruct(module, ys),
         NEW t, IsTerm(t), IsOk(Decode(y, t)), PartsExact(y, t), ~Lossy(y, t)
  PROVE  Encode(y, Decode(y, t)[2]) = t
<1>1. Decode(y, t) = DecodeStruct(module, ys, t)
  BY DEF Decode, NifStruct
<1>2. IsOk(MapGet(t, StructKey)) /\ MapGet(t, StructKey)[2] = module
      /\ DecodeStruct(module, ys, t) = DecodeMap(ys, t)
  BY <1>1, OkIs DEF DecodeStruct
<1>3. t[1] = "map" /\ StructKey \in DOMAIN t[2] /\ t[2][StructKey] = module
  BY <1>2, OkIs DEF MapGet
<1>4. \A k \in DOMAIN ys : IsOk(Dec(ys[k], t[2][k])) => Enc(ys[k], Dec(ys[k], t[2][k])[2]) = t[2][k]
  <2>1. Parts(y, t) = {<<ys[k], t[2][k]>> : k \in DOMAIN ys}
    BY DEF Parts, NifStruct
  <2>2. \A k \in DOMAIN ys : <<ys[k], t[2][k]>> \in Parts(y, t)
    BY <2>1
  <2> QED
    BY <2>2 DEF PartsExact
<1> DEFINE vs == DecodeMap(ys, t)[2][2]
           m0 == [k \in {StructKey} |-> module]
<1>5. /\ DecodeMap(ys, t) = Ok(<<"struct", vs>>)
      /\ \A k \in DOMAIN ys : Enc(ys[k], vs[k]) = t[2][k]
  BY <1>1, <1>2, <1>3, <1>4, ExactFieldsOfMap
<1> HIDE DEF vs
<1>6. t = Map(t[2]) /\ IsMap(t[2])
  BY <1>3, TermIs
<1>7. DOMAIN t[2] = DOMAIN ys \cup {StructKey}
  BY DEF Lossy, NifStruct
<1>8. Decode(y, t)[2] = <<"struct", vs>>
  BY <1>1, <1>2, <1>5, OkIs
<1>9. Encode(y, <<"struct", vs>>) = PutFields(m0, ys, vs)
  BY DEF Encode, EncodeStruct, NifStruct
<1>10. DOMAIN m0 = {StructKey} /\ m0[StructKey] = t[2][StructKey]
  BY <1>3
<1> HIDE DEF m0
<1> DEFINE p == t[2]
<1>11. PutFields(m0, ys, vs) = Map(p)
  <2>1. /\ IsMap(p) /\ DOMAIN p = DOMAIN m0 \cup DOMAIN ys
        /\ \A k \in DOMAIN ys : Enc(ys[k], vs[k]) = p[k]
        /\ \A k \in DOMAIN m0 \ DOMAIN ys : m0[k] = p[k]
    BY <1>5, <1>6, <1>7, <1>10
  <2> HIDE DEF p
  <2> QED
    BY <2>1, WithFieldsIs
<1> QED
  BY <1>6, <1>8, <1>9, <1>11

\* Only pairs with one of the two tags are taken.
LEMMA ExactResult ==
  ASSUME NEW z, NEW e, NEW y, y = <<"result", z, e>>, NEW t, IsTerm(t), IsOk(Decode(y, t)),
         PartsExact(y, t)
  PROVE  Encode(y, Decode(y, t)[2]) = t
<1>1. Decode(y, t) = DecodeResult(z, e, t)
  BY DEF Decode
<1>2. IsTuple(t) /\ Len(t[2]) = 2
  BY <1>1, OkIs DEF DecodeResult
<1>3. t = Tuple(t[2]) /\ IsSeq(t[2])
  BY <1>2, TermIs DEF IsTuple
<1> DEFINE s   == t[2]
           tag == s[1]
           c   == IF tag = OkAtom THEN z ELSE e
           r   == Dec(c, s[2])
<1>4. /\ tag \in {OkAtom, ErrAtom} /\ IsOk(r)
      /\ Decode(y, t) = Ok(<<IF tag = OkAtom THEN "ok" ELSE "err", r[2]>>)
  BY <1>1, <1>2, OkIs DEF DecodeResult
<1>5. Enc(c, r[2]) = s[2]
  <2>1. <<c, s[2]>> \in Parts(y, t)
    BY DEF Parts
  <2> QED
    BY <1>4, <2>1 DEF PartsExact
<1> HIDE DEF r
<1>6. OkAtom # ErrAtom
  BY DEF OkAtom, ErrAtom, Atom
<1>7. Encode(y, Decode(y, t)[2]) = Tuple(<<tag, Enc(c, r[2])>>)
  <2>1. \A w : Encode(y, <<"ok", w>>) = Tuple(<<OkAtom, Enc(z, w)>>)
    BY DEF Encode, EncodeResult
  <2>2. \A w : Encode(y, <<"err", w>>) = Tuple(<<ErrAtom, Enc(e, w)>>)
    BY DEF Encode, EncodeResult
  <2>3. CASE tag = OkAtom
    BY <1>4, <2>1, <2>3, OkIs
  <2>4. CASE tag = ErrAtom
    BY <1>4, <1>6, <2>2, <2>4, OkIs
  <2> QED
    BY <1>4, <2>3, <2>4
<1>8. s = <<s[1], s[2]>>
  <2>1. s = [i \in 1..2 |-> s[i]]
    BY <1>2, <1>3, SeqParts
  <2> QED
    BY <2>1
<1> QED
  BY <1>3, <1>5, <1>7, <1>8

\* The variant that took the term encodes to it.
LEMMA ExactUntagged ==
  ASSUME NEW ys, IsSeq(ys), NEW y, y = NifUntaggedEnum(ys), NEW t, IsOk(Decode(y, t)),
         PartsExact(y, t)
  PROVE  Encode(y, Decode(y, t)[2]) = t
<1> DEFINE stops == {i \in DOMAIN ys : IsOk(Dec(ys[i], t)) \/ Dec(ys[i], t) = Panics}
           n == CHOOSE j \in stops : \A k \in stops : j <= k
           r == Dec(ys[n], t)
<1>1. Decode(y, t) = DecodeUntagged(ys, t)
  BY DEF Decode, NifUntaggedEnum
<1>2. DecodeUntagged(ys, t) = IF stops = {} THEN Invalid
                              ELSE IF IsOk(r) THEN Ok(<<"untagged", n, r[2]>>) ELSE Panics
  BY DEF DecodeUntagged
<1>3. stops # {}
  <2> HIDE DEF stops, r, n
  <2> QED
    BY <1>1, <1>2, OkIs
<1>4. n \in stops
  <2>1. stops \in SUBSET Nat
    BY SeqParts
  <2> HIDE DEF stops
  <2>2. \E m \in stops : \A k \in stops : m <= k
    BY <1>3, <2>1, LeastNatural
  <2> QED
    BY <2>2
<1>5. n \in DOMAIN ys
  <2>1. stops \subseteq DOMAIN ys
    OBVIOUS
  <2> HIDE DEF stops, n
  <2> QED
    BY <1>4, <2>1
<1>6. IsOk(r) /\ Decode(y, t) = Ok(<<"untagged", n, r[2]>>)
  <2> HIDE DEF stops, r, n
  <2> QED
    BY <1>1, <1>2, <1>3, OkIs
<1>7. Enc(ys[n], r[2]) = t
  <2>1. Parts(y, t) = {<<ys[i], t>> : i \in DOMAIN ys}
    BY DEF Parts, NifUntaggedEnum
  <2> HIDE DEF n
  <2>2. <<ys[n], t>> \in Parts(y, t)
    BY <1>5, <2>1
  <2> QED
    BY <1>6, <2>2 DEF PartsExact
<1> HIDE DEF r, n
<1>8. Decode(y, t)[2] = <<"untagged", n, r[2]>>
  BY <1>6, OkIs
<1>9. Encode(y, <<"untagged", n, r[2]>>) = Enc(ys[n], r[2])
  BY DEF Encode, EncodeUntagged, NifUntaggedEnum
<1> QED
  BY <1>7, <1>8, <1>9

\* A map without fields takes any term.
HasFields(y) == y[1] = "map" => DOMAIN y[2] # {}

\* What decode takes is the term that its result is encoded to, where Lossy does
\* not say otherwise and the codecs of the components do so: no element, key, tag
\* or digit is passed over.
THEOREM DecodesExactly ==
  ASSUME NEW y, IsType(y), HasFields(y), NEW t, IsTerm(t), IsOk(Decode(y, t)),
         ~Lossy(y, t), PartsExact(y, t)
  PROVE  Encode(y, Decode(y, t)[2]) = t
<1>1. CASE y \in {<<"wide">>, <<"byte">>, <<"bool">>, <<"str">>, <<"name">>}
  BY <1>1, ExactNumber, ExactBool, ExactStr, ExactName
<1>2. CASE \E names : y = NifUnitEnum(names) /\ \A a \in names : IsTag(a)
  BY <1>2, ExactUnit
<1>3. CASE \E z : y = <<"option", z>>
  BY <1>3, ExactOption
<1>4. CASE \E z : y = <<"vec", z>>
  BY <1>4, ExactVec
<1>5. CASE \E z, e : y = <<"result", z, e>>
  BY <1>5, ExactResult
<1>6. CASE \E ys : y = NifTuple(ys) /\ IsSeq(ys)
  BY <1>6, ExactTuple
<1>7. CASE \E tag, ys : y = NifRecord(tag, ys) /\ IsTag(tag) /\ IsSeq(ys)
  BY <1>7, ExactRecord
<1>8. CASE \E ys : y = NifMap(ys)
  <2>1. PICK ys : y = NifMap(ys)
    BY <1>8
  <2>2. DOMAIN ys # {}
    BY <2>1 DEF HasFields, NifMap
  <2> QED
    BY <2>1, <2>2, ExactMap
<1>9. CASE \E module, ys : y = NifStruct(module, ys) /\ IsTag(module) /\ StructKey \notin DOMAIN ys
  BY <1>9, ExactStruct
<1>10. CASE \E ys : y = NifUntaggedEnum(ys) /\ IsSeq(ys)
  BY <1>10, ExactUntagged
<1> QED
  BY <1>1, <1>2, <1>3, <1>4, <1>5, <1>6, <1>7, <1>8, <1>9, <1>10 DEF IsType

-----------------------------------------------------------------------------
(* A term that decode panics about *)

\* Some of the decodes of components panics.
PartPanics(y, t) ==
  \E p \in Parts(y, t) : (p[2] = t \/ p[2] \in Elements(t)) /\ Dec(p[1], p[2]) = Panics

\* What tells a panic from the other results.
LEMMA PanicIs ==
  ASSUME NEW v
  PROVE  Panics # Ok(v) /\ Panics # BadArg /\ Panics # Invalid
BY DEF Panics, Ok, BadArg, Invalid

\* The first failure is a panic only if one of the results is.
LEMMA PanicOfSeveral ==
  ASSUME NEW rs, IsSeq(rs), NEW tag, AllOrFirst(rs, tag) = Panics
  PROVE  \E i \in DOMAIN rs : rs[i] = Panics
<1>1. ~IsOk(AllOrFirst(rs, tag))
  BY OkIs
<1>2. \E i \in DOMAIN rs : ~IsOk(rs[i])
  BY <1>1, AllOrFirstIs
<1> QED
  BY <1>2, AllOrFirstIs

\* Types without components do not panic.
LEMMA PanicOfLeaf ==
  ASSUME NEW y, NEW t,
         y \in {<<"wide">>, <<"byte">>, <<"bool">>, <<"str">>, <<"name">>}
           \/ \E names : y = NifUnitEnum(names)
  PROVE  Decode(y, t) # Panics
BY PanicIs DEF Decode, NifUnitEnum, DecodeNumber, DecodeBool, DecodeStr, DecodeName, DecodeUnit

\* unwrap of what is no cell, or a panic of an element.
LEMMA PanicOfVec ==
  ASSUME NEW z, NEW y, y = <<"vec", z>>, NEW t, IsTerm(t), Decode(y, t) = Panics
  PROVE  t[1] = "list" /\ (t[3] # End \/ PartPanics(y, t))
<1>1. DecodeVec(z, t) = Panics
  BY DEF Decode
<1>2. t[1] = "list"
  BY <1>1, PanicIs DEF DecodeVec
<1>3. IsSeq(t[2])
  BY <1>2, TermIs
<1> SUFFICES ASSUME t[3] = End PROVE PartPanics(y, t)
  BY <1>2
<1> DEFINE s  == t[2]
           ds == [i \in DOMAIN s |-> Dec(z, s[i])]
<1>4. AllOrFirst(ds \o <<>>, "vec") = Panics
  BY <1>1, <1>2 DEF DecodeVec
<1>5. Len(s) \in Nat /\ DOMAIN s = 1..Len(s)
  BY <1>3, SeqParts
<1>6. DOMAIN ds = 1..Len(s) /\ ds = [i \in 1..Len(s) |-> ds[i]]
  BY <1>5
<1>7. \A i \in 1..Len(s) : ds[i] = Dec(z, s[i])
  BY <1>5
<1>8. \A i \in 1..Len(s) : <<z, s[i]>> \in Parts(y, t)
  BY <1>5 DEF Parts
<1> HIDE DEF ds
<1>9. IsSeq(ds)
  BY <1>5, <1>6, SeqOf
<1>10. ds \o <<>> = ds
  BY <1>9 DEF IsSeq
<1>11. PICK i \in DOMAIN ds : ds[i] = Panics
  BY <1>4, <1>9, <1>10, PanicOfSeveral
<1>12. s[i] \in Elements(t)
  BY <1>2, <1>5, <1>6 DEF Elements
<1> QED
  BY <1>6, <1>7, <1>8, <1>11, <1>12 DEF PartPanics

\* What a field is decoded from is an element of the tuple.
LEMMA FieldElement ==
  ASSUME NEW ys, IsSeq(ys), NEW t, IsTerm(t), NEW from \in Nat,
         IsTuple(t), Len(t[2]) = from + Len(ys), NEW i \in DOMAIN ys
  PROVE  t[2][from + i] \in Elements(t)
<1>1. IsSeq(t[2]) /\ t[1] = "tuple"
  BY TermIs DEF IsTuple
<1>2. DOMAIN t[2] = 1..Len(t[2]) /\ DOMAIN ys = 1..Len(ys) /\ Len(ys) \in Nat
  BY <1>1, SeqParts
<1>3. from + i \in DOMAIN t[2]
  BY <1>2
<1> QED
  BY <1>1, <1>3 DEF Elements

\* A tuple panics only in a field.
LEMMA PanicOfFields ==
  ASSUME NEW ys, IsSeq(ys), NEW t, IsTerm(t), NEW from \in Nat, NEW error, error # Panics,
         DecodeFields(ys, t, from, error) = Panics
  PROVE  \E i \in DOMAIN ys : t[2][from + i] \in Elements(t) /\ Dec(ys[i], t[2][from + i]) = Panics
<1> DEFINE rs == [i \in DOMAIN ys |-> Dec(ys[i], t[2][from + i])]
<1>1. AllOrFirst(rs, "tuple") = Panics
  BY PanicIs DEF DecodeFields
<1>2. Len(ys) \in Nat /\ DOMAIN ys = 1..Len(ys)
  BY SeqParts
<1>3. DOMAIN rs = 1..Len(ys) /\ rs = [i \in 1..Len(ys) |-> rs[i]]
  BY <1>2
<1>4. \A i \in DOMAIN ys : rs[i] = Dec(ys[i], t[2][from + i])
  OBVIOUS
<1> HIDE DEF rs
<1>5. IsSeq(rs)
  BY <1>2, <1>3, SeqOf
<1>6. PICK i \in DOMAIN rs : rs[i] = Panics
  BY <1>1, <1>5, PanicOfSeveral
<1>7. IsTuple(t) /\ Len(t[2]) = from + Len(ys)
  BY PanicIs DEF DecodeFields
<1>8. t[2][from + i] \in Elements(t)
  BY <1>2, <1>3, <1>7, FieldElement
<1> QED
  BY <1>2, <1>3, <1>4, <1>6, <1>8

\* A map panics only in a field.
LEMMA PanicOfMap ==
  ASSUME NEW ys, NEW t, DecodeMap(ys, t) = Panics
  PROVE  \E k \in DOMAIN ys : t[2][k] \in Elements(t) /\ Dec(ys[k], t[2][k]) = Panics
<1> DEFINE field(k) == LET f == MapGet(t, k) IN IF IsOk(f) THEN Dec(ys[k], f[2]) ELSE f
           bad == {k \in DOMAIN ys : ~IsOk(field(k))}
           fs == [k \in DOMAIN ys |-> field(k)[2]]
<1>1. DecodeMap(ys, t) = IF bad = {} THEN Ok(<<"struct", fs>>) ELSE field(CHOOSE k \in bad : TRUE)
  BY DEF DecodeMap
<1>2. \E k \in bad : field(k) = Panics
  <2> HIDE DEF bad, fs, field
  <2>1. bad # {} /\ field(CHOOSE k \in bad : TRUE) = Panics
    BY <1>1, PanicIs
  <2> QED
    BY <2>1
<1>3. PICK k \in DOMAIN ys : field(k) = Panics
  <2>1. bad \subseteq DOMAIN ys
    OBVIOUS
  <2> HIDE DEF bad, field
  <2> QED
    BY <1>2, <2>1
<1>4. MapGet(t, k) = Ok(t[2][k]) \/ MapGet(t, k) = BadArg
  BY DEF MapGet
<1>5. CASE MapGet(t, k) = Ok(t[2][k])
  <2>1. t[1] = "map" /\ k \in DOMAIN t[2]
    BY <1>5 DEF MapGet, Ok, BadArg
  <2>2. t[2][k] \in Elements(t)
    BY <2>1 DEF Elements
  <2> QED
    BY <1>3, <1>5, <2>2, OkIs
<1>6. CASE MapGet(t, k) = BadArg
  BY <1>3, <1>6, OkIs, PanicIs
<1> QED
  BY <1>4, <1>5, <1>6

\* Decode only panics about a list that does not end in [], in the term or in a
\* part of it that the codec of a component panics about.
THEOREM PanicsFrom ==
  ASSUME NEW y, IsType(y), NEW t, IsTerm(t), Decode(y, t) = Panics
  PROVE  (y[1] = "vec" /\ t[1] = "list" /\ t[3] # End) \/ PartPanics(y, t)
<1>1. CASE \/ y \in {<<"wide">>, <<"byte">>, <<"bool">>, <<"str">>, <<"name">>}
           \/ \E names : y = NifUnitEnum(names) /\ \A a \in names : IsTag(a)
  BY <1>1, PanicOfLeaf
<1>2. CASE \E z : y = <<"option", z>>
  <2>1. PICK z : y = <<"option", z>>
    BY <1>2
  <2>2. DecodeOption(z, t) = Panics
    BY <2>1 DEF Decode
  <2>3. Dec(z, t) = Panics
    BY <2>2, PanicIs DEF DecodeOption
  <2>4. <<z, t>> \in Parts(y, t)
    BY <2>1 DEF Parts
  <2> QED
    BY <2>3, <2>4 DEF PartPanics
<1>3. CASE \E z : y = <<"vec", z>>
  <2>1. PICK z : y = <<"vec", z>>
    BY <1>3
  <2>2. y[1] = "vec"
    BY <2>1
  <2> QED
    BY <2>1, <2>2, PanicOfVec
<1>4. CASE \E z, e : y = <<"result", z, e>>
  <2>1. PICK z, e : y = <<"result", z, e>>
    BY <1>4
  <2>2. DecodeResult(z, e, t) = Panics
    BY <2>1 DEF Decode
  <2> DEFINE c == IF t[2][1] = OkAtom THEN z ELSE e
  <2>3. Dec(c, t[2][2]) = Panics /\ IsTuple(t) /\ Len(t[2]) = 2
    BY <2>2, PanicIs DEF DecodeResult
  <2>5. t[2][2] \in Elements(t)
    <3>1. IsSeq(t[2]) /\ t[1] = "tuple"
      BY <2>3, TermIs DEF IsTuple
    <3>2. 2 \in DOMAIN t[2]
      BY <2>3, <3>1, SeqParts
    <3> QED
      BY <3>1, <3>2 DEF Elements
  <2>4. <<c, t[2][2]>> \in Parts(y, t)
    BY <2>1 DEF Parts
  <2> HIDE DEF c
  <2> QED
    BY <2>3, <2>4, <2>5 DEF PartPanics
<1>5. CASE \E ys : y = NifTuple(ys) /\ IsSeq(ys)
  <2>1. PICK ys : y = NifTuple(ys) /\ IsSeq(ys)
    BY <1>5
  <2>2. DecodeFields(ys, t, 0, BadArg) = Panics
    BY <2>1 DEF Decode, DecodeTuple, NifTuple
  <2>3. PICK i \in DOMAIN ys : t[2][0 + i] \in Elements(t) /\ Dec(ys[i], t[2][0 + i]) = Panics
    BY <2>1, <2>2, PanicIs, PanicOfFields
  <2>4. i \in Nat /\ 0 + i = i
    BY <2>1, SeqParts
  <2>5. <<ys[i], t[2][i]>> \in Parts(y, t)
    BY <2>1 DEF Parts, NifTuple
  <2>6. Dec(ys[i], t[2][i]) = Panics /\ t[2][i] \in Elements(t)
    BY <2>3, <2>4
  <2> QED
    BY <2>5, <2>6 DEF PartPanics
<1>6. CASE \E tag, ys : y = NifRecord(tag, ys) /\ IsTag(tag) /\ IsSeq(ys)
  <2>1. PICK tag, ys : y = NifRecord(tag, ys) /\ IsTag(tag) /\ IsSeq(ys)
    BY <1>6
  <2>2. DecodeRecord(tag, ys, t) = Panics
    BY <2>1 DEF Decode, NifRecord
  <2>3. DecodeFields(ys, t, 1, Invalid) = Panics
    BY <2>2, PanicIs DEF DecodeRecord
  <2>4. PICK i \in DOMAIN ys : t[2][1 + i] \in Elements(t) /\ Dec(ys[i], t[2][1 + i]) = Panics
    BY <2>1, <2>3, PanicIs, PanicOfFields
  <2>5. i \in Nat /\ 1 + i = i + 1
    BY <2>1, SeqParts
  <2>6. <<ys[i], t[2][i + 1]>> \in Parts(y, t)
    BY <2>1 DEF Parts, NifRecord
  <2>7. Dec(ys[i], t[2][i + 1]) = Panics /\ t[2][i + 1] \in Elements(t)
    BY <2>4, <2>5
  <2> QED
    BY <2>6, <2>7 DEF PartPanics
<1>7. CASE \E ys : y = NifMap(ys)
  <2>1. PICK ys : y = NifMap(ys)
    BY <1>7
  <2>2. DecodeMap(ys, t) = Panics
    BY <2>1 DEF Decode, NifMap
  <2>3. PICK k \in DOMAIN ys : t[2][k] \in Elements(t) /\ Dec(ys[k], t[2][k]) = Panics
    BY <2>2, PanicOfMap
  <2>4. <<ys[k], t[2][k]>> \in Parts(y, t)
    BY <2>1 DEF Parts, NifMap
  <2> QED
    BY <2>3, <2>4 DEF PartPanics
<1>8. CASE \E module, ys : y = NifStruct(module, ys) /\ IsTag(module) /\ StructKey \notin DOMAIN ys
  <2>1. PICK module, ys : y = NifStruct(module, ys)
    BY <1>8
  <2>2. DecodeStruct(module, ys, t) = Panics
    BY <2>1 DEF Decode, NifStruct
  <2>3. DecodeMap(ys, t) = Panics
    BY <2>2, PanicIs DEF DecodeStruct
  <2>4. PICK k \in DOMAIN ys : t[2][k] \in Elements(t) /\ Dec(ys[k], t[2][k]) = Panics
    BY <2>3, PanicOfMap
  <2>5. <<ys[k], t[2][k]>> \in Parts(y, t)
    BY <2>1 DEF Parts, NifStruct
  <2> QED
    BY <2>4, <2>5 DEF PartPanics
<1>9. CASE \E ys : y = NifUntaggedEnum(ys) /\ IsSeq(ys)
  <2>1. PICK ys : y = NifUntaggedEnum(ys) /\ IsSeq(ys)
    BY <1>9
  <2>2. DecodeUntagged(ys, t) = Panics
    BY <2>1 DEF Decode, NifUntaggedEnum
  <2> DEFINE stops == {i \in DOMAIN ys : IsOk(Dec(ys[i], t)) \/ Dec(ys[i], t) = Panics}
             n == CHOOSE j \in stops : \A k \in stops : j <= k
             r == Dec(ys[n], t)
  <2>3. DecodeUntagged(ys, t) = IF stops = {} THEN Invalid
                                ELSE IF IsOk(r) THEN Ok(<<"untagged", n, r[2]>>) ELSE Panics
    BY DEF DecodeUntagged
  <2>4. stops # {} /\ ~IsOk(r)
    <3> HIDE DEF stops, r, n
    <3> QED
      BY <2>2, <2>3, PanicIs
  <2>5. n \in stops
    <3>1. stops \in SUBSET Nat
      BY <2>1, SeqParts
    <3> HIDE DEF stops
    <3>2. \E m \in stops : \A k \in stops : m <= k
      BY <2>4, <3>1, LeastNatural
    <3> QED
      BY <3>2
  <2>6. \A i \in stops : i \in DOMAIN ys /\ (IsOk(Dec(ys[i], t)) \/ Dec(ys[i], t) = Panics)
    OBVIOUS
  <2>7. n \in DOMAIN ys /\ Dec(ys[n], t) = Panics
    <3> HIDE DEF stops, n
    <3> QED
      BY <2>4, <2>5, <2>6
  <2>8. \A i \in DOMAIN ys : <<ys[i], t>> \in Parts(y, t)
    BY <2>1 DEF Parts, NifUntaggedEnum
  <2> HIDE DEF n
  <2> QED
    BY <2>7, <2>8 DEF PartPanics
<1> QED
  BY <1>1, <1>2, <1>3, <1>4, <1>5, <1>6, <1>7, <1>8, <1>9 DEF IsType

-----------------------------------------------------------------------------
(* What decode looks at, and what encode makes *)

\* What a type's codec gives to those of its components is the term itself or one
\* of its elements.
THEOREM PartsWithin ==
  ASSUME NEW y, IsType(y), NEW t, IsTerm(t), IsOk(Decode(y, t)), NEW p \in Parts(y, t)
  PROVE  p[2] = t \/ p[2] \in Elements(t)
<1>1. CASE \/ y \in {<<"wide">>, <<"byte">>, <<"bool">>, <<"str">>, <<"name">>}
           \/ \E names : y = NifUnitEnum(names) /\ \A a \in names : IsTag(a)
  BY <1>1 DEF Parts, NifUnitEnum
<1>2. CASE \E z : y = <<"option", z>>
  BY <1>2 DEF Parts
<1>3. CASE \E z : y = <<"vec", z>>
  <2>1. PICK z : y = <<"vec", z>>
    BY <1>3
  <2>2. Decode(y, t) = DecodeVec(z, t)
    BY <2>1 DEF Decode
  <2>3. t[1] = "list"
    BY <2>2, OkIs DEF DecodeVec
  <2>4. \E i \in DOMAIN t[2] : p = <<z, t[2][i]>>
    BY <2>1 DEF Parts
  <2> QED
    BY <2>3, <2>4 DEF Elements
<1>4. CASE \E z, e : y = <<"result", z, e>>
  <2>1. PICK z, e : y = <<"result", z, e>>
    BY <1>4
  <2>2. Decode(y, t) = DecodeResult(z, e, t)
    BY <2>1 DEF Decode
  <2>3. IsTuple(t) /\ Len(t[2]) = 2
    BY <2>2, OkIs DEF DecodeResult
  <2>4. p[2] = t[2][2]
    BY <2>1 DEF Parts
  <2>5. IsSeq(t[2]) /\ t[1] = "tuple"
    BY <2>3, TermIs DEF IsTuple
  <2>6. 2 \in DOMAIN t[2]
    BY <2>3, <2>5, SeqParts
  <2> QED
    BY <2>4, <2>5, <2>6 DEF Elements
<1>5. CASE \E ys : y = NifTuple(ys) /\ IsSeq(ys)
  <2>1. PICK ys : y = NifTuple(ys) /\ IsSeq(ys)
    BY <1>5
  <2>2. Decode(y, t) = DecodeFields(ys, t, 0, BadArg)
    BY <2>1 DEF Decode, DecodeTuple, NifTuple
  <2>3. IsTuple(t) /\ Len(t[2]) = 0 + Len(ys)
    BY <2>2, OkIs DEF DecodeFields
  <2>4. PICK i \in DOMAIN ys : p = <<ys[i], t[2][i]>>
    BY <2>1 DEF Parts, NifTuple
  <2>5. i \in Nat /\ 0 + i = i
    BY <2>1, SeqParts
  <2>6. t[2][0 + i] \in Elements(t)
    BY <2>1, <2>3, FieldElement
  <2> QED
    BY <2>4, <2>5, <2>6
<1>6. CASE \E tag, ys : y = NifRecord(tag, ys) /\ IsTag(tag) /\ IsSeq(ys)
  <2>1. PICK tag, ys : y = NifRecord(tag, ys) /\ IsTag(tag) /\ IsSeq(ys)
    BY <1>6
  <2>2. Decode(y, t) = DecodeRecord(tag, ys, t)
    BY <2>1 DEF Decode, NifRecord
  <2>3. IsOk(DecodeFields(ys, t, 1, Invalid))
    BY <2>2, OkIs DEF DecodeRecord
  <2>4. IsTuple(t) /\ Len(t[2]) = 1 + Len(ys)
    BY <2>3, OkIs DEF DecodeFields
  <2>5. PICK i \in DOMAIN ys : p = <<ys[i], t[2][i + 1]>>
    BY <2>1 DEF Parts, NifRecord
  <2>6. i \in Nat /\ 1 + i = i + 1
    BY <2>1, SeqParts
  <2>7. t[2][1 + i] \in Elements(t)
    BY <2>1, <2>4, FieldElement
  <2> QED
    BY <2>5, <2>6, <2>7
<1>7. CASE \E ys : y = NifMap(ys)
  <2>1. PICK ys : y = NifMap(ys)
    BY <1>7
  <2>2. IsOk(DecodeMap(ys, t))
    BY <2>1 DEF Decode, NifMap
  <2>3. PICK k \in DOMAIN ys : p = <<ys[k], t[2][k]>>
    BY <2>1 DEF Parts, NifMap
  <2>4. t[1] = "map" /\ k \in DOMAIN t[2]
    BY <2>2, FieldsFound
  <2> QED
    BY <2>3, <2>4 DEF Elements
<1>8. CASE \E module, ys : y = NifStruct(module, ys) /\ IsTag(module) /\ StructKey \notin DOMAIN ys
  <2>1. PICK module, ys : y = NifStruct(module, ys)
    BY <1>8
  <2>2. IsOk(DecodeStruct(module, ys, t))
    BY <2>1 DEF Decode, NifStruct
  <2>3. IsOk(DecodeMap(ys, t))
    BY <2>2, OkIs DEF DecodeStruct
  <2>4. PICK k \in DOMAIN ys : p = <<ys[k], t[2][k]>>
    BY <2>1 DEF Parts, NifStruct
  <2>5. t[1] = "map" /\ k \in DOMAIN t[2]
    BY <2>3, FieldsFound
  <2> QED
    BY <2>4, <2>5 DEF Elements
<1>9. CASE \E ys : y = NifUntaggedEnum(ys) /\ IsSeq(ys)
  BY <1>9 DEF Parts, NifUntaggedEnum
<1> QED
  BY <1>1, <1>2, <1>3, <1>4, <1>5, <1>6, <1>7, <1>8, <1>9 DEF IsType

\* The atoms that the encoders make by themselves.
LEMMA TagsAre ==
  IsTag(NilAtom) /\ IsTag(True) /\ IsTag(False) /\ IsTag(OkAtom) /\ IsTag(ErrAtom)
<1>1. ASSUME NEW c PROVE IsTag(Atom(<<c>>))
  <2>1. ~(Len(<<c>>) > MaxName)
    BY NifTermsAssumption
  <2> QED
    BY <2>1 DEF IsTag, IsTerm, IsAtom, Atom
<1> QED
  BY <1>1 DEF NilAtom, True, False, OkAtom, ErrAtom

\* A term that encode makes of tags and of what the codecs of the components make.
MadeOf(y, v, t) ==
  /\ IsTerm(t) /\ (t[1] = "list" => t[3] = End)
  /\ \A x \in Elements(t) :
       IsTag(x) \/ \E p \in Components(y, v) : x = Enc(p[1], p[2])

\* Encoders make terms that are well-formed: atoms have names that they can have,
\* and lists end in [].
THEOREM EncodesTerms ==
  ASSUME NEW y, IsType(y), NEW v \in ValuesOf(y), ~NoAtom(y, v), MaxList \in Nat
  PROVE  \/ \E p \in Components(y, v) : Encode(y, v) = Enc(p[1], p[2])
         \/ MadeOf(y, v, Encode(y, v))
<1> USE NifTermsAssumption
<1>0. ASSUME NEW t, IsTerm(t), t[1] \notin {"tuple", "list", "map"} PROVE MadeOf(y, v, t)
  BY <1>0 DEF MadeOf, Elements
<1>00. ASSUME NEW t, IsTag(t) PROVE MadeOf(y, v, t)
  <2>1. IsTerm(t) /\ t[1] = "atom"
    BY <1>00 DEF IsTag, IsAtom
  <2> QED
    BY <1>0, <2>1
<1>1. CASE y \in {<<"wide">>, <<"byte">>}
  <2>1. Encode(y, v) = Num(v[2])
    BY <1>1 DEF Encode, EncodeNumber
  <2>2. IsTerm(Num(v[2])) /\ Num(v[2])[1] = "num"
    BY DEF IsTerm, Num
  <2> QED
    BY <1>0, <2>1, <2>2
<1>2. CASE y = <<"bool">>
  <2>1. Encode(y, v) = True \/ Encode(y, v) = False
    BY <1>2 DEF Encode, EncodeBool
  <2> QED
    BY <1>00, <2>1, TagsAre
<1>3. CASE y = <<"str">>
  <2>1. Encode(y, v) = Bin(v[2])
    BY <1>3 DEF Encode, EncodeStr
  <2>2. IsTerm(Bin(v[2])) /\ Bin(v[2])[1] = "bin"
    BY DEF IsTerm, Bin
  <2> QED
    BY <1>0, <2>1, <2>2
<1>4. CASE y = <<"name">>
  <2> DEFINE S == UNION {[1..n -> Chars] : n \in 1..(MaxName + 1)}
  <2>1. ValuesOf(y) = {<<"name", s>> : s \in S}
    BY <1>4 DEF ValuesOf
  <2>2. PICK s \in S : v = <<"name", s>>
    <3> HIDE DEF S
    <3> QED
      BY <2>1
  <2>3. ~(\E i \in DOMAIN s : s[i] = "wide") /\ ~(Len(s) > MaxName)
    BY <1>4, <2>2 DEF NoAtom
  <2>4. FromStr(s) = Ok(Atom(s))
    BY <2>3 DEF FromStr
  <2>5. Encode(y, v) = Atom(s)
    BY <1>4, <2>2, <2>4, OkIs DEF Encode
  <2>6. IsTag(Atom(s))
    BY <2>3 DEF IsTag, IsAtom, IsTerm, Atom
  <2> QED
    BY <1>00, <2>5, <2>6
<1>5. CASE \E names : y = NifUnitEnum(names) /\ \A a \in names : IsTag(a)
  <2>1. PICK names : y = NifUnitEnum(names) /\ \A a \in names : IsTag(a)
    BY <1>5
  <2>2. PICK a \in names : v = <<"unit", a>>
    BY <2>1 DEF ValuesOf, NifUnitEnum
  <2>3. Encode(y, v) = a
    BY <2>1, <2>2 DEF Encode, EncodeUnit, NifUnitEnum
  <2> QED
    BY <1>00, <2>1, <2>3
<1>6. CASE \E z : y = <<"option", z>>
  <2>1. PICK z : y = <<"option", z>>
    BY <1>6
  <2>2. Encode(y, v) = EncodeOption(z, v)
    BY <2>1 DEF Encode
  <2>3. CASE v = None
    <3>1. Encode(y, v) = NilAtom
      BY <2>2, <2>3 DEF EncodeOption
    <3> QED
      BY <1>00, <3>1, TagsAre
  <2>4. CASE v # None
    <3>1. Encode(y, v) = Enc(z, v[2])
      BY <2>2, <2>4 DEF EncodeOption
    <3>2. <<z, v[2]>> \in Components(y, v)
      BY <2>1, <2>4 DEF Components
    <3> QED
      BY <3>1, <3>2
  <2> QED
    BY <2>3, <2>4
<1>7. CASE \E z : y = <<"vec", z>>
  <2>1. PICK z : y = <<"vec", z>>
    BY <1>7
  <2> DEFINE S == UNION {[1..n -> Vals(z)] : n \in 0..MaxList}
  <2>2. ValuesOf(y) = {<<"vec", vs>> : vs \in S}
    BY <2>1 DEF ValuesOf
  <2>3. PICK vs \in S : v = <<"vec", vs>>
    <3> HIDE DEF S
    <3> QED
      BY <2>2
  <2>4. PICK n \in 0..MaxList : vs \in [1..n -> Vals(z)]
    BY <2>3
  <2> DEFINE ts == [i \in 1..n |-> Enc(z, vs[i])]
  <2>5. Encode(y, v) = List(ts, End)
    BY <2>1, <2>3, <2>4 DEF Encode, EncodeVec
  <2>6. \A i \in 1..n : \E p \in Components(y, v) : ts[i] = Enc(p[1], p[2])
    <3>1. \A i \in 1..n : <<z, vs[i]>> \in Components(y, v)
      BY <2>1, <2>3, <2>4 DEF Components
    <3> QED
      BY <3>1
  <2>7. DOMAIN ts = 1..n /\ ts = [i \in 1..n |-> ts[i]] /\ n \in Nat
    OBVIOUS
  <2> HIDE DEF ts
  <2>8. IsSeq(ts)
    BY <2>7, SeqOf
  <2>9. IsTerm(List(ts, End)) /\ List(ts, End)[1] = "list" /\ List(ts, End)[3] = End
        /\ List(ts, End)[2] = ts
    BY <2>8 DEF IsTerm, List
  <2>10. MadeOf(y, v, List(ts, End))
    BY <2>6, <2>7, <2>9 DEF MadeOf, Elements
  <2> QED
    BY <2>5, <2>10
<1>8. CASE \E z, e : y = <<"result", z, e>>
  <2>1. PICK z, e : y = <<"result", z, e>>
    BY <1>8
  <2> DEFINE c   == IF v[1] = "ok" THEN z ELSE e
             tag == IF v[1] = "ok" THEN OkAtom ELSE ErrAtom
             s   == <<tag, Enc(c, v[2])>>
  <2>2. Encode(y, v) = Tuple(s)
    BY <2>1 DEF Encode, EncodeResult
  <2>3. <<c, v[2]>> \in Components(y, v)
    BY <2>1 DEF Components
  <2>4. IsTag(tag)
    BY TagsAre
  <2>5. s = [i \in 1..2 |-> s[i]] /\ s[1] = tag /\ s[2] = Enc(c, v[2]) /\ DOMAIN s = 1..2
    OBVIOUS
  <2> HIDE DEF s, c, tag
  <2>6. IsSeq(s)
    BY <2>5, SeqOf
  <2>7. IsTerm(Tuple(s)) /\ Tuple(s)[1] = "tuple" /\ Tuple(s)[2] = s
    BY <2>6 DEF IsTerm, Tuple
  <2>8. Elements(Tuple(s)) = {s[i] : i \in 1..2}
    BY <2>5, <2>7 DEF Elements
  <2>9. \A x \in Elements(Tuple(s)) : x = tag \/ x = Enc(c, v[2])
    BY <2>5, <2>8
  <2>10. MadeOf(y, v, Tuple(s))
    BY <2>3, <2>4, <2>7, <2>9 DEF MadeOf
  <2> QED
    BY <2>2, <2>10
<1>9. CASE \E ys : y = NifTuple(ys) /\ IsSeq(ys)
  <2>1. PICK ys : y = NifTuple(ys) /\ IsSeq(ys)
    BY <1>9
  <2>2. PICK vs \in FieldVals(ys) : v = <<"tuple", vs>>
    BY <2>1 DEF ValuesOf, NifTuple
  <2> DEFINE f == EncodeAll(ys, vs)
  <2>3. Encode(y, v) = Tuple(f)
    BY <2>1, <2>2 DEF Encode, EncodeTuple, NifTuple
  <2>4. IsSeq(f) /\ Len(f) = Len(ys) /\ \A i \in DOMAIN ys : f[i] = Enc(ys[i], vs[i])
    BY <2>1, EncodedFields
  <2>5. \A i \in DOMAIN ys : <<ys[i], vs[i]>> \in Components(y, v)
    <3>1. Components(y, v) = {<<ys[k], vs[k]>> : k \in DOMAIN ys}
      BY <2>1, <2>2 DEF Components, NifTuple
    <3> QED
      BY <3>1
  <2> HIDE DEF f
  <2>6. IsTerm(Tuple(f)) /\ Tuple(f)[1] = "tuple" /\ Tuple(f)[2] = f
    BY <2>4 DEF IsTerm, Tuple
  <2>7. DOMAIN f = DOMAIN ys
    BY <2>1, <2>4, SeqParts
  <2>8. MadeOf(y, v, Tuple(f))
    <3>1. \A x \in Elements(Tuple(f)) : \E i \in DOMAIN ys : x = f[i]
      BY <2>6, <2>7 DEF Elements
    <3>2. \A i \in DOMAIN ys : \E p \in Components(y, v) : f[i] = Enc(p[1], p[2])
      BY <2>4, <2>5
    <3> QED
      BY <2>6, <3>1, <3>2 DEF MadeOf
  <2> QED
    BY <2>3, <2>8
<1>10. CASE \E tag, ys : y = NifRecord(tag, ys) /\ IsTag(tag) /\ IsSeq(ys)
  <2>1. PICK tag, ys : y = NifRecord(tag, ys) /\ IsTag(tag) /\ IsSeq(ys)
    BY <1>10
  <2>2. PICK vs \in FieldVals(ys) : v = <<"tuple", vs>>
    BY <2>1 DEF ValuesOf, NifRecord
  <2> DEFINE f == EncodeAll(ys, vs)
             s == <<tag>> \o f
  <2>3. Encode(y, v) = Tuple(s)
    BY <2>1, <2>2 DEF Encode, EncodeRecord, NifRecord
  <2>4. IsSeq(f) /\ Len(f) = Len(ys) /\ \A i \in DOMAIN ys : f[i] = Enc(ys[i], vs[i])
    BY <2>1, EncodedFields
  <2>5. \A i \in DOMAIN ys : <<ys[i], vs[i]>> \in Components(y, v)
    <3>1. Components(y, v) = {<<ys[k], vs[k]>> : k \in DOMAIN ys}
      BY <2>1, <2>2 DEF Components, NifRecord
    <3> QED
      BY <3>1
  <2>6. DOMAIN f = DOMAIN ys /\ DOMAIN f = 1..Len(f) /\ Len(f) \in Nat
    BY <2>1, <2>4, SeqParts
  <2> HIDE DEF f
  <2>7. /\ DOMAIN s = 1..(1 + Len(f)) /\ s[1] = tag /\ s = [i \in 1..(1 + Len(f)) |-> s[i]]
        /\ \A i \in 2..(1 + Len(f)) : s[i] = f[i - 1]
    <3> DEFINE R == {f[i] : i \in DOMAIN f} \cup {tag}
    <3>1. f \in Seq(R) /\ <<tag>> \in Seq(R)
      BY <2>4, SeqDef, SeqParts DEF IsSeq
    <3> QED
      BY <2>6, <3>1
  <2> HIDE DEF s
  <2>8. IsSeq(s)
    BY <2>6, <2>7, SeqOf
  <2>9. IsTerm(Tuple(s)) /\ Tuple(s)[1] = "tuple" /\ Tuple(s)[2] = s
    BY <2>8 DEF IsTerm, Tuple
  <2>10. \A x \in Elements(Tuple(s)) : x = tag \/ \E i \in DOMAIN ys : x = f[i]
    <3>1. Elements(Tuple(s)) = {s[i] : i \in 1..(1 + Len(f))}
      BY <2>7, <2>9 DEF Elements
    <3>2. \A i \in 2..(1 + Len(f)) : i - 1 \in DOMAIN ys
      BY <2>6
    <3>3. \A i \in 1..(1 + Len(f)) : i = 1 \/ i \in 2..(1 + Len(f))
      BY <2>6
    <3>4. \A i \in 2..(1 + Len(f)) : \E j \in DOMAIN ys : s[i] = f[j]
      BY <2>7, <3>2
    <3> QED
      BY <2>7, <3>1, <3>3, <3>4
  <2>11. \A i \in DOMAIN ys : \E p \in Components(y, v) : f[i] = Enc(p[1], p[2])
    BY <2>4, <2>5
  <2>12. MadeOf(y, v, Tuple(s))
    BY <2>1, <2>9, <2>10, <2>11 DEF MadeOf
  <2> QED
    BY <2>3, <2>12
<1>11. CASE \E ys : y = NifMap(ys)
  <2>1. PICK ys : y = NifMap(ys)
    BY <1>11
  <2>2. PICK vs \in FieldVals(ys) : v = <<"struct", vs>>
    BY <2>1 DEF ValuesOf, NifMap
  <2> DEFINE none == [k \in {} |-> NilAtom]
             q == WithFields(none, ys, vs)
  <2>3. Encode(y, v) = PutFields(none, ys, vs)
    BY <2>1, <2>2 DEF Encode, EncodeMap, NifMap
  <2>4. DOMAIN none = {}
    OBVIOUS
  <2> HIDE DEF none
  <2>5. PutFields(none, ys, vs) = Map(q) /\ DOMAIN q = DOMAIN ys /\ IsMap(q)
    <3>1. PutFields(none, ys, vs) = Map(q) /\ DOMAIN q = DOMAIN none \cup DOMAIN ys /\ IsMap(q)
      BY PutFieldsIs
    <3> QED
      BY <2>4, <3>1
  <2>6. \A k \in DOMAIN ys : q[k] = Enc(ys[k], vs[k])
    BY FieldsPut
  <2> HIDE DEF q
  <2>7. \A i \in DOMAIN ys : <<ys[i], vs[i]>> \in Components(y, v)
    <3>1. Components(y, v) = {<<ys[k], vs[k]>> : k \in DOMAIN ys}
      BY <2>1, <2>2 DEF Components, NifMap
    <3> QED
      BY <3>1
  <2>8. IsTerm(Map(q)) /\ Map(q)[1] = "map" /\ Map(q)[2] = q
    BY <2>5 DEF IsTerm, Map
  <2>9. \A k \in DOMAIN ys : \E p \in Components(y, v) : q[k] = Enc(p[1], p[2])
    BY <2>6, <2>7
  <2>10. MadeOf(y, v, Map(q))
    BY <2>5, <2>8, <2>9 DEF MadeOf, Elements
  <2> QED
    BY <2>3, <2>5, <2>10
<1>12. CASE \E module, ys : y = NifStruct(module, ys) /\ IsTag(module) /\ StructKey \notin DOMAIN ys
  <2>1. PICK module, ys : y = NifStruct(module, ys) /\ IsTag(module) /\ StructKey \notin DOMAIN ys
    BY <1>12
  <2>2. PICK vs \in FieldVals(ys) : v = <<"struct", vs>>
    BY <2>1 DEF ValuesOf, NifStruct
  <2> DEFINE m0 == [k \in {StructKey} |-> module]
             q == WithFields(m0, ys, vs)
  <2>3. Encode(y, v) = PutFields(m0, ys, vs)
    BY <2>1, <2>2 DEF Encode, EncodeStruct, NifStruct
  <2>4. DOMAIN m0 = {StructKey} /\ m0[StructKey] = module
    OBVIOUS
  <2> HIDE DEF m0
  <2>5. PutFields(m0, ys, vs) = Map(q) /\ DOMAIN q = {StructKey} \cup DOMAIN ys /\ IsMap(q)
    BY <2>4, PutFieldsIs
  <2>6. \A k \in DOMAIN ys : q[k] = Enc(ys[k], vs[k])
    BY FieldsPut
  <2>7. q[StructKey] = module
    BY <2>1, <2>4, FieldsPut
  <2> HIDE DEF q
  <2>8. \A i \in DOMAIN ys : <<ys[i], vs[i]>> \in Components(y, v)
    <3>1. Components(y, v) = {<<ys[k], vs[k]>> : k \in DOMAIN ys}
      BY <2>1, <2>2 DEF Components, NifStruct
    <3> QED
      BY <3>1
  <2>9. IsTerm(Map(q)) /\ Map(q)[1] = "map" /\ Map(q)[2] = q
    BY <2>5 DEF IsTerm, Map
  <2>10. \A k \in DOMAIN ys : \E p \in Components(y, v) : q[k] = Enc(p[1], p[2])
    BY <2>6, <2>8
  <2>11. MadeOf(y, v, Map(q))
    BY <2>1, <2>5, <2>7, <2>9, <2>10 DEF MadeOf, Elements
  <2> QED
    BY <2>3, <2>5, <2>11
<1>13. CASE \E ys : y = NifUntaggedEnum(ys) /\ IsSeq(ys)
  <2>1. PICK ys : y = NifUntaggedEnum(ys)
    BY <1>13
  <2>2. Encode(y, v) = Enc(ys[v[2]], v[3])
    BY <2>1 DEF Encode, EncodeUntagged, NifUntaggedEnum
  <2>3. <<ys[v[2]], v[3]>> \in Components(y, v)
    BY <2>1 DEF Components, NifUntaggedEnum
  <2> QED
    BY <2>2, <2>3
<1> QED
  BY <1>1, <1>2, <1>3, <1>4, <1>5, <1>6, <1>7, <1>8, <1>9, <1>10, <1>11, <1>12, <1>13 DEF IsType

-----------------------------------------------------------------------------
(* The components of a type *)

Subtypes(y) ==
  CASE y[1] \in {"option", "vec"} -> {y[2]}
    [] y[1] = "result" -> {y[2], y[3]}
    [] y[1] \in {"tuple", "map", "untagged"} -> {y[2][k] : k \in DOMAIN y[2]}
    [] y[1] \in {"record", "struct"} -> {y[3][k] : k \in DOMAIN y[3]}
    [] OTHER -> {}

\* Decode gives the parts of a term to the codecs of components.
LEMMA PartTypes ==
  ASSUME NEW y, IsType(y), NEW t, NEW p \in Parts(y, t)
  PROVE  p[1] \in Subtypes(y)
<1>1. CASE \/ y \in {<<"wide">>, <<"byte">>, <<"bool">>, <<"str">>, <<"name">>}
           \/ \E names : y = NifUnitEnum(names) /\ \A a \in names : IsTag(a)
  BY <1>1 DEF Parts, NifUnitEnum
<1>2. CASE (\E z : y = <<"option", z>>) \/ (\E z : y = <<"vec", z>>)
  BY <1>2 DEF Parts, Subtypes
<1>3. CASE \E z, e : y = <<"result", z, e>>
  BY <1>3 DEF Parts, Subtypes
<1>4. CASE \E ys : y = NifTuple(ys) /\ IsSeq(ys)
  BY <1>4 DEF Parts, Subtypes, NifTuple
<1>5. CASE \E tag, ys : y = NifRecord(tag, ys) /\ IsTag(tag) /\ IsSeq(ys)
  BY <1>5 DEF Parts, Subtypes, NifRecord
<1>6. CASE \E ys : y = NifMap(ys)
  BY <1>6 DEF Parts, Subtypes, NifMap
<1>7. CASE \E module, ys : y = NifStruct(module, ys) /\ IsTag(module) /\ StructKey \notin DOMAIN ys
  BY <1>7 DEF Parts, Subtypes, NifStruct
<1>8. CASE \E ys : y = NifUntaggedEnum(ys) /\ IsSeq(ys)
  BY <1>8 DEF Parts, Subtypes, NifUntaggedEnum
<1> QED
  BY <1>1, <1>2, <1>3, <1>4, <1>5, <1>6, <1>7, <1>8 DEF IsType

\* A field's value is of the field's type.
LEMMA FieldTypes ==
  ASSUME NEW ys, NEW vs \in FieldVals(ys), NEW k \in DOMAIN ys
  PROVE  vs[k] \in Vals(ys[k])
BY DEF FieldVals

\* The components of a value are values of the component types.
LEMMA ComponentTypes ==
  ASSUME NEW y, IsType(y), NEW v \in ValuesOf(y), NEW p \in Components(y, v)
  PROVE  p[1] \in Subtypes(y) /\ p[2] \in Vals(p[1])
<1>1. CASE \/ y \in {<<"wide">>, <<"byte">>, <<"bool">>, <<"str">>, <<"name">>}
           \/ \E names : y = NifUnitEnum(names) /\ \A a \in names : IsTag(a)
  BY <1>1 DEF Components, NifUnitEnum
<1>2. CASE \E z : y = <<"option", z>>
  <2>1. PICK z : y = <<"option", z>>
    BY <1>2
  <2>2. v # None /\ p = <<z, v[2]>>
    BY <2>1 DEF Components
  <2>3. \E w \in Vals(z) : v = Some(w)
    BY <2>1, <2>2 DEF ValuesOf
  <2> QED
    BY <2>1, <2>2, <2>3 DEF Subtypes, Some
<1>3. CASE \E z : y = <<"vec", z>>
  <2>1. PICK z : y = <<"vec", z>>
    BY <1>3
  <2> DEFINE S == UNION {[1..n -> Vals(z)] : n \in 0..MaxList}
  <2>2. ValuesOf(y) = {<<"vec", vs>> : vs \in S}
    BY <2>1 DEF ValuesOf
  <2>3. PICK vs \in S : v = <<"vec", vs>>
    <3> HIDE DEF S
    <3> QED
      BY <2>2
  <2>4. PICK n \in 0..MaxList : vs \in [1..n -> Vals(z)]
    BY <2>3
  <2>5. PICK i \in 1..n : p = <<z, vs[i]>>
    BY <2>1, <2>3, <2>4 DEF Components
  <2> QED
    BY <2>1, <2>4, <2>5 DEF Subtypes
<1>4. CASE \E z, e : y = <<"result", z, e>>
  <2>1. PICK z, e : y = <<"result", z, e>>
    BY <1>4
  <2>2. p = <<IF v[1] = "ok" THEN z ELSE e, v[2]>>
    BY <2>1 DEF Components
  <2>3. (\E w \in Vals(z) : v = <<"ok", w>>) \/ (\E w \in Vals(e) : v = <<"err", w>>)
    BY <2>1 DEF ValuesOf
  <2> QED
    BY <2>1, <2>2, <2>3 DEF Subtypes
<1>5. CASE \E ys : y = NifTuple(ys) /\ IsSeq(ys)
  <2>1. PICK ys : y = NifTuple(ys)
    BY <1>5
  <2>2. PICK vs \in FieldVals(ys) : v = <<"tuple", vs>>
    BY <2>1 DEF ValuesOf, NifTuple
  <2>3. PICK k \in DOMAIN ys : p = <<ys[k], vs[k]>>
    BY <2>1, <2>2 DEF Components, NifTuple
  <2> QED
    BY <2>1, <2>3, FieldTypes DEF Subtypes, NifTuple
<1>6. CASE \E tag, ys : y = NifRecord(tag, ys) /\ IsTag(tag) /\ IsSeq(ys)
  <2>1. PICK tag, ys : y = NifRecord(tag, ys)
    BY <1>6
  <2>2. PICK vs \in FieldVals(ys) : v = <<"tuple", vs>>
    BY <2>1 DEF ValuesOf, NifRecord
  <2>3. PICK k \in DOMAIN ys : p = <<ys[k], vs[k]>>
    BY <2>1, <2>2 DEF Components, NifRecord
  <2> QED
    BY <2>1, <2>3, FieldTypes DEF Subtypes, NifRecord
<1>7. CASE \E ys : y = NifMap(ys)
  <2>1. PICK ys : y = NifMap(ys)
    BY <1>7
  <2>2. PICK vs \in FieldVals(ys) : v = <<"struct", vs>>
    BY <2>1 DEF ValuesOf, NifMap
  <2>3. PICK k \in DOMAIN ys : p = <<ys[k], vs[k]>>
    BY <2>1, <2>2 DEF Components, NifMap
  <2> QED
    BY <2>1, <2>3, FieldTypes DEF Subtypes, NifMap
<1>8. CASE \E module, ys : y = NifStruct(module, ys) /\ IsTag(module) /\ StructKey \notin DOMAIN ys
  <2>1. PICK module, ys : y = NifStruct(module, ys)
    BY <1>8
  <2>2. PICK vs \in FieldVals(ys) : v = <<"struct", vs>>
    BY <2>1 DEF ValuesOf, NifStruct
  <2>3. PICK k \in DOMAIN ys : p = <<ys[k], vs[k]>>
    BY <2>1, <2>2 DEF Components, NifStruct
  <2> QED
    BY <2>1, <2>3, FieldTypes DEF Subtypes, NifStruct
<1>9. CASE \E ys : y = NifUntaggedEnum(ys) /\ IsSeq(ys)
  <2>1. PICK ys : y = NifUntaggedEnum(ys)
    BY <1>9
  <2>2. PICK n \in DOMAIN ys : \E w \in Vals(ys[n]) : v = <<"untagged", n, w>>
    BY <2>1 DEF ValuesOf, NifUntaggedEnum
  <2>3. PICK w \in Vals(ys[n]) : v = <<"untagged", n, w>>
    BY <2>2
  <2>4. p = <<ys[n], w>>
    BY <2>1, <2>3 DEF Components, NifUntaggedEnum
  <2> QED
    BY <2>1, <2>2, <2>3, <2>4 DEF Subtypes, NifUntaggedEnum
<1> QED
  BY <1>1, <1>2, <1>3, <1>4, <1>5, <1>6, <1>7, <1>8, <1>9 DEF IsType

\* The variants tried before that of the value are component types too.
LEMMA EarlierVariants ==
  ASSUME NEW y, IsType(y), y[1] = "untagged", NEW v \in ValuesOf(y)
  PROVE  /\ <<y[2][v[2]], v[3]>> \in Components(y, v)
         /\ \A i \in 1..(v[2] - 1) : y[2][i] \in Subtypes(y)
<1>1. PICK ys : y = NifUntaggedEnum(ys) /\ IsSeq(ys)
  BY DEF IsType, NifUnitEnum, NifTuple, NifRecord, NifMap, NifStruct
<1>2. PICK n \in DOMAIN ys : \E w \in Vals(ys[n]) : v = <<"untagged", n, w>>
  BY <1>1 DEF ValuesOf, NifUntaggedEnum
<1>3. v[2] = n /\ y[2] = ys
  BY <1>1, <1>2 DEF NifUntaggedEnum
<1>4. \A i \in 1..(n - 1) : i \in DOMAIN ys
  BY <1>1, SeqParts
<1>5. <<y[2][v[2]], v[3]>> \in Components(y, v)
  BY DEF Components
<1> QED
  BY <1>3, <1>4, <1>5 DEF Subtypes
=============================================================================
