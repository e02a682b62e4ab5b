------------------------------ MODULE NifCodec ------------------------------
(***************************************************************************)
(* Encoder and Decoder of the NIF library: how Rust values become Erlang    *)
(* terms and terms become values, for the types of the library and for      *)
(* those that its derives (NifTuple, NifRecord, NifMap, NifStruct,          *)
(* NifUnitEnum, NifUntaggedEnum) generate.                                  *)
(*                                                                          *)
(* As the code is generic over the codecs of the components of a type, the  *)
(* module is over Enc and Dec.  A type is a tuple of its kind and of what   *)
(* it is made of.                                                           *)
(***************************************************************************)
EXTENDS NifTerms

CONSTANTS
  Enc(_, _),   \* Enc(y, v): the term of a value of a component's type
  Dec(_, _),   \* Dec(y, t): what decode returns for a component's type
  Vals(_),     \* the values of a component's type
  Loses(_, _), \* Loses(y, t): that codec does not restore the term
  Blurs(_, _), \* Blurs(y, v): that codec does not restore the value
  MaxList      \* bound on the elements of a list

-----------------------------------------------------------------------------
(* Encoder *)

EncodeAll(ys, vs) == [k \in DOMAIN vs |-> Enc(ys[k], vs[k])]

\* Term::map_put, for all fields of a NifMap or NifStruct.
PutFields(m, ys, vs) ==
  Map([k \in DOMAIN m \cup DOMAIN ys |-> IF k \in DOMAIN ys THEN Enc(ys[k], vs[k]) ELSE m[k]])

EncodeOption(y, v) == IF v = None THEN NilAtom ELSE Enc(y, v[2])

\* make_list casts the length to an unsigned int, which the bound stays below.
EncodeVec(y, vs) == List([i \in DOMAIN vs |-> Enc(y, vs[i])], End)

\* {ok, T} or {error, E}
EncodeResult(y, e, v) ==
  IF v[1] = "ok" THEN Tuple(<<OkAtom, Enc(y, v[2])>>)
                 ELSE Tuple(<<ErrAtom, Enc(e, v[2])>>)

EncodeTuple(ys, vs) == Tuple(EncodeAll(ys, vs))

EncodeRecord(tag, ys, vs) == Tuple(<<tag>> \o EncodeAll(ys, vs))

EncodeMap(ys, vs) == PutFields([k \in {} |-> NilAtom], ys, vs)

EncodeStruct(module, ys, vs) == PutFields([k \in {StructKey} |-> module], ys, vs)

EncodeUntagged(ys, v) == Enc(ys[v[2]], v[3])

Encode(y, v) ==
  CASE y[1] \in {"wide", "byte"} -> EncodeNumber(v[2])
    [] y[1] = "bool"   -> EncodeBool(v[2])
    [] y[1] = "str"    -> EncodeStr(v[2])
    [] y[1] = "name"   -> FromStr(v[2])[2]
    [] y[1] = "unit"   -> EncodeUnit(v[2])
    [] y[1] = "option" -> EncodeOption(y[2], v)
    [] y[1] = "vec"    -> EncodeVec(y[2], v[2])
    [] y[1] = "tuple"  -> EncodeTuple(y[2], v[2])
    [] y[1] = "result" -> EncodeResult(y[2], y[3], v)
    [] y[1] = "record" -> EncodeRecord(y[2], y[3], v[2])
    [] y[1] = "map"    -> EncodeMap(y[2], v[2])
    [] y[1] = "struct" -> EncodeStruct(y[2], y[3], v[2])
    [] y[1] = "untagged" -> EncodeUntagged(y[2], v)

-----------------------------------------------------------------------------
(* Decoder *)

\* Several decodes, one after the other: the first that fails, or all.
AllOrFirst(rs, tag) ==
  IF \A i \in DOMAIN rs : IsOk(rs[i])
  THEN Ok(<<tag, [i \in DOMAIN rs |-> rs[i][2]]>>)
  ELSE rs[CHOOSE i \in DOMAIN rs : ~IsOk(rs[i]) /\ \A j \in 1..(i - 1) : IsOk(rs[j])]

\* Vec<T>, with ListIterator: elements until [] or, for an improper list, a panic;
\* the first element that does not decode ends it before.
DecodeVec(y, t) ==
  IF t[1] # "list" THEN BadArg
  ELSE AllOrFirst([i \in DOMAIN t[2] |-> Dec(y, t[2][i])]
                    \o (IF t[3] = End THEN <<>> ELSE <<Panics>>), "vec")

\* Mutant of DecodeFields: elements beyond those of the type are passed over.
DecodeFields_Any(ys, t, from, error) ==
  IF ~IsTuple(t) THEN BadArg
  ELSE IF Len(t[2]) < from + Len(ys) THEN error
  ELSE AllOrFirst([i \in DOMAIN ys |-> Dec(ys[i], t[2][from + i])], "tuple")

\* Tuples, and records after their tag: as many elements as the type has.
DecodeFields(ys, t, from, error) ==
  IF ~IsTuple(t) THEN BadArg
  ELSE IF Len(t[2]) # from + Len(ys) THEN error
  ELSE AllOrFirst([i \in DOMAIN ys |-> Dec(ys[i], t[2][from + i])], "tuple")

\* Option<T>: T comes first, the atom nil is looked at when it fails.
DecodeOption(y, t) ==
  LET r == Dec(y, t) IN
  CASE IsOk(r) -> Ok(Some(r[2]))
    [] r = Panics -> Panics
    [] OTHER -> IF t = NilAtom THEN Ok(None) ELSE BadArg

\* Result<T, E>: {ok, T} or {error, E}
DecodeResult(y, e, t) ==
  IF ~IsTuple(t) \/ Len(t[2]) # 2 THEN BadArg
  ELSE LET tag == t[2][1]
           r   == Dec(IF tag = OkAtom THEN y ELSE e, t[2][2])
       IN  IF tag \notin {OkAtom, ErrAtom} THEN BadArg
           ELSE IF ~IsOk(r) THEN r
           ELSE Ok(<<IF tag = OkAtom THEN "ok" ELSE "err", r[2]>>)

\* Tuples and NifTuple
DecodeTuple(ys, t) == DecodeFields(ys, t, 0, BadArg)

\* NifRecord
DecodeRecord(tag, ys, t) ==
  LET long == IsTuple(t) /\ Len(t[2]) = Len(ys) + 1
  IN  CASE long /\ ~IsAtom(t[2][1]) -> BadArg
        [] long /\ IsAtom(t[2][1]) /\ t[2][1] # tag -> Invalid
        [] OTHER -> DecodeFields(ys, t, 1, Invalid)

\* Term::map_get
MapGet(t, k) == IF t[1] = "map" /\ k \in DOMAIN t[2] THEN Ok(t[2][k]) ELSE BadArg

\* NifMap: a key that is missing or a field that does not decode is an error.
DecodeMap(ys, t) ==
  LET field(k) == LET f == MapGet(t, k) IN IF IsOk(f) THEN Dec(ys[k], f[2]) ELSE f
      bad == {k \in DOMAIN ys : ~IsOk(field(k))}
  IN  IF bad = {} THEN Ok(<<"struct", [k \in DOMAIN ys |-> field(k)[2]]>>)
                  ELSE field(CHOOSE k \in bad : TRUE)

\* NifStruct
DecodeStruct(module, ys, t) ==
  LET m == MapGet(t, StructKey)
  IN  IF ~IsOk(m) \/ ~IsAtom(m[2]) THEN BadArg
      ELSE IF m[2] # module THEN Invalid
      ELSE DecodeMap(ys, t)

\* NifUntaggedEnum: the first variant that decodes.
DecodeUntagged(ys, t) ==
  LET stops == {i \in DOMAIN ys : IsOk(Dec(ys[i], t)) \/ Dec(ys[i], t) = Panics} IN
  IF stops = {} THEN Invalid
  ELSE LET i == CHOOSE j \in stops : \A k \in stops : j <= k
           r == Dec(ys[i], t)
       IN  IF IsOk(r) THEN Ok(<<"untagged", i, r[2]>>) ELSE Panics

Decode(y, t) ==
  CASE y[1] \in {"wide", "byte"} -> DecodeNumber(y[1], t)
    [] y[1] = "bool"   -> DecodeBool(t)
    [] y[1] = "str"    -> DecodeStr(t)
    [] y[1] = "name"   -> DecodeName(t)
    [] y[1] = "unit"   -> DecodeUnit(y[2], t)
    [] y[1] = "option" -> DecodeOption(y[2], t)
    [] y[1] = "vec"    -> DecodeVec(y[2], t)
    [] y[1] = "tuple"  -> DecodeTuple(y[2], t)
    [] y[1] = "result" -> DecodeResult(y[2], y[3], t)
    [] y[1] = "record" -> DecodeRecord(y[2], y[3], t)
    [] y[1] = "map"    -> DecodeMap(y[2], t)
    [] y[1] = "struct" -> DecodeStruct(y[2], y[3], t)
    [] y[1] = "untagged" -> DecodeUntagged(y[2], t)

-----------------------------------------------------------------------------
(* Types: what the derives are given, the attributes and the fields *)

NifTuple(ys)          == <<"tuple", ys>>
NifRecord(tag, ys)    == <<"record", tag, ys>>
NifMap(ys)            == <<"map", ys>>
NifStruct(module, ys) == <<"struct", module, ys>>
NifUnitEnum(names)    == <<"unit", names>>
NifUntaggedEnum(ys)   == <<"untagged", ys>>

\* One value for each field.
FieldVals(ys) ==
  {f \in [DOMAIN ys -> UNION {Vals(ys[k]) : k \in DOMAIN ys}] : \A k \in DOMAIN ys : f[k] \in Vals(ys[k])}

ValuesOf(y) ==
  CASE y[1] = "wide" -> {<<"n", n>> : n \in 0..(Wide - 1)}
    [] y[1] = "byte" -> {<<"n", n>> : n \in 0..(Byte - 1)}
    [] y[1] = "bool" -> {<<"b", b>> : b \in BOOLEAN}
    [] y[1] = "str"  -> {<<"s", "utf8">>}
    [] y[1] = "name" -> {<<"name", s>> : s \in UNION {[1..n -> Chars] : n \in 1..(MaxName + 1)}}
    [] y[1] = "unit" -> {<<"unit", t>> : t \in y[2]}
    [] y[1] = "option" -> {Some(v) : v \in Vals(y[2])} \cup {None}
    [] y[1] = "vec"  -> {<<"vec", vs>> : vs \in UNION {[1..n -> Vals(y[2])] : n \in 0..MaxList}}
    [] y[1] = "tuple" -> {<<"tuple", vs>> : vs \in FieldVals(y[2])}
    [] y[1] = "result" -> {<<"ok", v>> : v \in Vals(y[2])} \cup {<<"err", v>> : v \in Vals(y[3])}
    [] y[1] = "record" -> {<<"tuple", vs>> : vs \in FieldVals(y[3])}
    [] y[1] = "map"  -> {<<"struct", f>> : f \in FieldVals(y[2])}
    [] y[1] = "struct" -> {<<"struct", f>> : f \in FieldVals(y[3])}
    [] y[1] = "untagged" -> UNION {{<<"untagged", i, v>> : v \in Vals(y[2][i])} : i \in DOMAIN y[2]}

-----------------------------------------------------------------------------
(* What gets lost *)

\* The types and values of the components of a value.
Components(y, v) ==
  CASE y[1] = "option" -> IF v = None THEN {} ELSE {<<y[2], v[2]>>}
    [] y[1] = "vec"    -> {<<y[2], v[2][i]>> : i \in DOMAIN v[2]}
    [] y[1] \in {"tuple", "map"} -> {<<y[2][k], v[2][k]>> : k \in DOMAIN y[2]}
    [] y[1] \in {"record", "struct"} -> {<<y[3][k], v[2][k]>> : k \in DOMAIN y[3]}
    [] y[1] = "result" -> {<<IF v[1] = "ok" THEN y[2] ELSE y[3], v[2]>>}
    [] y[1] = "untagged" -> {<<y[2][v[2]], v[3]>>}
    [] OTHER -> {}

\* Values that are encoded to the term of another one: the None of a type that
\* takes nil for a value, a variant whose term an earlier one takes, and values
\* with such components.
Ambiguous(y, v) ==
  \/ y[1] = "option" /\ v = None /\ IsOk(Dec(y[2], NilAtom))
  \/ y[1] = "untagged" /\ \E i \in 1..(v[2] - 1) : IsOk(Dec(y[2][i], Enc(y[2][v[2]], v[3])))
  \/ \E p \in Components(y, v) : Blurs(p[1], p[2])

\* A name that no atom has: of characters that are not Latin-1, or too many.
NoAtom(y, v) ==
  y[1] = "name" /\ (Len(v[2]) > MaxName \/ \E i \in DOMAIN v[2] : v[2][i] = "wide")

\* The types and terms of the components that decode looks at.
Parts(y, t) ==
  CASE y[1] = "option" -> {<<y[2], t>>}
    [] y[1] = "vec"    -> {<<y[2], t[2][i]>> : i \in DOMAIN t[2]}
    [] y[1] = "tuple"  -> {<<y[2][i], t[2][i]>> : i \in DOMAIN y[2]}
    [] y[1] = "result" -> {<<IF t[2][1] = OkAtom THEN y[2] ELSE y[3], t[2][2]>>}
    [] y[1] = "record" -> {<<y[3][i], t[2][i + 1]>> : i \in DOMAIN y[3]}
    [] y[1] = "map"    -> {<<y[2][k], t[2][k]>> : k \in DOMAIN y[2]}
    [] y[1] = "struct" -> {<<y[3][k], t[2][k]>> : k \in DOMAIN y[3]}
    [] y[1] = "untagged" -> {<<y[2][i], t>> : i \in DOMAIN y[2]}
    [] OTHER -> {}

\* Terms that decode takes but that its result is not encoded to: a bool is made
\* of any term, a cast cuts numbers, keys that no field has are passed over, and
\* what the codecs of the components lose.
Lossy(y, t) ==
  \/ y[1] = "bool" /\ t \notin {True, False}
  \/ y[1] = "byte" /\ t[2] >= Byte
  \/ y[1] = "map" /\ DOMAIN t[2] # DOMAIN y[2]
  \/ y[1] = "struct" /\ DOMAIN t[2] # DOMAIN y[3] \cup {StructKey}
  \/ \E p \in Parts(y, t) : IsOk(Dec(p[1], p[2])) /\ Loses(p[1], p[2])
=============================================================================
