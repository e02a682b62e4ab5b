------------------------- MODULE NifTranscodeProofs -------------------------
(***************************************************************************)
(* Proofs about NifTranscode, for any widths, lengths of names and lengths  *)
(* of lists: what NifCodecProofs shows of a codec is applied three times,   *)
(* to types without components, to types with such components and to types  *)
(* with components that have components; then the behaviours inherit it.    *)
(***************************************************************************)
EXTENDS NifTranscode, TLAPS

LeafP  == INSTANCE NifCodecProofs WITH
           Enc <- NoEnc, Dec <- NoDec, Vals <- NoVals, Loses <- Never, Blurs <- Never
CodecP == INSTANCE NifCodecProofs WITH
           Enc <- Leaf!Encode, Dec <- Leaf!Decode, Vals <- Leaf!ValuesOf,
           Loses <- Leaf!Lossy, Blurs <- Leaf!Ambiguous
NestedP == INSTANCE NifCodecProofs WITH
           Enc <- Codec!Encode, Dec <- Codec!Decode, Vals <- Codec!ValuesOf,
           Loses <- Codec!Lossy, Blurs <- Codec!Ambiguous

-----------------------------------------------------------------------------
(* An instance of NifCodecProofs has operators of its own, which are equal to  *)
(* those that NifTranscode has of the same instance of NifCodec.               *)

LEMMA LeafEncode ==
  ASSUME NEW y, NEW v
  PROVE  LeafP!Encode(y, v) = Leaf!Encode(y, v)
BY SMTT(60) DEF
  Leaf!Atom, LeafP!Atom, Leaf!BadArg, LeafP!BadArg, Leaf!Bin, LeafP!Bin, Leaf!Encode,
  LeafP!Encode, Leaf!EncodeAll, LeafP!EncodeAll, Leaf!EncodeBool, LeafP!EncodeBool,
  Leaf!EncodeMap, LeafP!EncodeMap, Leaf!EncodeNumber, LeafP!EncodeNumber, Leaf!EncodeOption,
  LeafP!EncodeOption, Leaf!EncodeRecord, LeafP!EncodeRecord, Leaf!EncodeResult,
  LeafP!EncodeResult, Leaf!EncodeStr, LeafP!EncodeStr, Leaf!EncodeStruct, LeafP!EncodeStruct,
  Leaf!EncodeTuple, LeafP!EncodeTuple, Leaf!EncodeUnit, LeafP!EncodeUnit, Leaf!EncodeUntagged,
  LeafP!EncodeUntagged, Leaf!EncodeVec, LeafP!EncodeVec, Leaf!End, LeafP!End, Leaf!ErrAtom,
  LeafP!ErrAtom, Leaf!False, LeafP!False, Leaf!FromStr, LeafP!FromStr, Leaf!List, LeafP!List,
  Leaf!Map, LeafP!Map, Leaf!NilAtom, LeafP!NilAtom, Leaf!None, LeafP!None, Leaf!Num, LeafP!Num,
  Leaf!Ok, LeafP!Ok, Leaf!OkAtom, LeafP!OkAtom, Leaf!PutFields, LeafP!PutFields, Leaf!StructKey,
  LeafP!StructKey, Leaf!True, LeafP!True, Leaf!Tuple, LeafP!Tuple

LEMMA LeafDecode ==
  ASSUME NEW y, NEW t
  PROVE  LeafP!Decode(y, t) = Leaf!Decode(y, t)
<1>1. \A z : LeafP!DecodeVec(z, t) = Leaf!DecodeVec(z, t)
  BY SMTT(60) DEF
    Leaf!AllOrFirst, LeafP!AllOrFirst, Leaf!BadArg, LeafP!BadArg, Leaf!DecodeVec, LeafP!DecodeVec,
    Leaf!End, LeafP!End, Leaf!IsOk, LeafP!IsOk, Leaf!Ok, LeafP!Ok, Leaf!Panics, LeafP!Panics
<1>2. \A ys, from, error : LeafP!DecodeFields(ys, t, from, error) = Leaf!DecodeFields(ys, t, from, error)
  BY SMTT(60) DEF
    Leaf!AllOrFirst, LeafP!AllOrFirst, Leaf!BadArg, LeafP!BadArg, Leaf!DecodeFields,
    LeafP!DecodeFields, Leaf!IsOk, LeafP!IsOk, Leaf!IsTuple, LeafP!IsTuple, Leaf!Ok, LeafP!Ok
<1>3. \A ys : LeafP!DecodeMap(ys, t) = Leaf!DecodeMap(ys, t)
  BY SMTT(60) DEF
    Leaf!BadArg, LeafP!BadArg, Leaf!DecodeMap, LeafP!DecodeMap, Leaf!IsOk, LeafP!IsOk,
    Leaf!MapGet, LeafP!MapGet, Leaf!Ok, LeafP!Ok
<1>4. \A ys : LeafP!DecodeUntagged(ys, t) = Leaf!DecodeUntagged(ys, t)
  BY SMTT(60) DEF
    Leaf!DecodeUntagged, LeafP!DecodeUntagged, Leaf!Invalid, LeafP!Invalid, Leaf!IsOk, LeafP!IsOk,
    Leaf!Ok, LeafP!Ok, Leaf!Panics, LeafP!Panics
<1>5. \A z, e : LeafP!DecodeResult(z, e, t) = Leaf!DecodeResult(z, e, t)
  BY SMTT(60) DEF
    Leaf!Atom, LeafP!Atom, Leaf!BadArg, LeafP!BadArg, Leaf!DecodeResult, LeafP!DecodeResult,
    Leaf!ErrAtom, LeafP!ErrAtom, Leaf!IsOk, LeafP!IsOk, Leaf!IsTuple, LeafP!IsTuple, Leaf!Ok,
    LeafP!Ok, Leaf!OkAtom, LeafP!OkAtom
<1>6. \A z : LeafP!DecodeOption(z, t) = Leaf!DecodeOption(z, t)
  BY SMTT(60) DEF
    Leaf!Atom, LeafP!Atom, Leaf!BadArg, LeafP!BadArg, Leaf!DecodeOption, LeafP!DecodeOption,
    Leaf!IsOk, LeafP!IsOk, Leaf!NilAtom, LeafP!NilAtom, Leaf!None, LeafP!None, Leaf!Ok, LeafP!Ok,
    Leaf!Panics, LeafP!Panics, Leaf!Some, LeafP!Some
<1> QED
  BY <1>1, <1>2, <1>3, <1>4, <1>5, <1>6, SMTT(60) DEF
    Leaf!Atom, LeafP!Atom, Leaf!BadArg, LeafP!BadArg, Leaf!Bin, LeafP!Bin, Leaf!Decode,
    LeafP!Decode, Leaf!DecodeBool, LeafP!DecodeBool, Leaf!DecodeName, LeafP!DecodeName,
    Leaf!DecodeNumber, LeafP!DecodeNumber, Leaf!DecodeRecord, LeafP!DecodeRecord, Leaf!DecodeStr,
    LeafP!DecodeStr, Leaf!DecodeStruct, LeafP!DecodeStruct, Leaf!DecodeTuple, LeafP!DecodeTuple,
    Leaf!DecodeUnit, LeafP!DecodeUnit, Leaf!End, LeafP!End, Leaf!ErrAtom, LeafP!ErrAtom,
    Leaf!False, LeafP!False, Leaf!Invalid, LeafP!Invalid, Leaf!IsAtom, LeafP!IsAtom, Leaf!IsOk,
    LeafP!IsOk, Leaf!IsTuple, LeafP!IsTuple, Leaf!MapGet, LeafP!MapGet, Leaf!NilAtom,
    LeafP!NilAtom, Leaf!None, LeafP!None, Leaf!Ok, LeafP!Ok, Leaf!OkAtom, LeafP!OkAtom,
    Leaf!Panics, LeafP!Panics, Leaf!Some, LeafP!Some, Leaf!StructKey, LeafP!StructKey

LEMMA LeafValuesOf ==
  ASSUME NEW y
  PROVE  LeafP!ValuesOf(y) = Leaf!ValuesOf(y)
BY SMTT(60) DEF
  Leaf!Chars, LeafP!Chars, Leaf!FieldVals, LeafP!FieldVals, Leaf!None, LeafP!None, Leaf!Some,
  LeafP!Some, Leaf!ValuesOf, LeafP!ValuesOf

LEMMA LeafNoAtom ==
  ASSUME NEW y, NEW x
  PROVE  LeafP!NoAtom(y, x) = Leaf!NoAtom(y, x)
BY SMTT(60) DEF
  Leaf!NoAtom, LeafP!NoAtom

LEMMA LeafParts ==
  ASSUME NEW y, NEW x
  PROVE  LeafP!Parts(y, x) = Leaf!Parts(y, x)
BY SMTT(60) DEF
  Leaf!Atom, LeafP!Atom, Leaf!OkAtom, LeafP!OkAtom, Leaf!Parts, LeafP!Parts

LEMMA LeafAmbiguous ==
  ASSUME NEW y, NEW x
  PROVE  LeafP!Ambiguous(y, x) = Leaf!Ambiguous(y, x)
BY SMTT(60) DEF
  Leaf!Ambiguous, LeafP!Ambiguous, Leaf!Atom, LeafP!Atom, Leaf!Components, LeafP!Components,
  Leaf!IsOk, LeafP!IsOk, Leaf!NilAtom, LeafP!NilAtom, Leaf!None, LeafP!None

LEMMA LeafLossy ==
  ASSUME NEW y, NEW x
  PROVE  LeafP!Lossy(y, x) = Leaf!Lossy(y, x)
BY SMTT(60) DEF
  Leaf!Atom, LeafP!Atom, Leaf!False, LeafP!False, Leaf!IsOk, LeafP!IsOk, Leaf!Lossy,
  LeafP!Lossy, Leaf!OkAtom, LeafP!OkAtom, Leaf!Parts, LeafP!Parts, Leaf!StructKey,
  LeafP!StructKey, Leaf!True, LeafP!True

LEMMA CodecEncode ==
  ASSUME NEW y, NEW v
  PROVE  CodecP!Encode(y, v) = Codec!Encode(y, v)
BY SMTT(60) DEF
  Codec!Atom, CodecP!Atom, Codec!BadArg, CodecP!BadArg, Codec!Bin, CodecP!Bin, Codec!Encode,
  CodecP!Encode, Codec!EncodeAll, CodecP!EncodeAll, Codec!EncodeBool, CodecP!EncodeBool,
  Codec!EncodeMap, CodecP!EncodeMap, Codec!EncodeNumber, CodecP!EncodeNumber,
  Codec!EncodeOption, CodecP!EncodeOption, Codec!EncodeRecord, CodecP!EncodeRecord,
  Codec!EncodeResult, CodecP!EncodeResult, Codec!EncodeStr, CodecP!EncodeStr,
  Codec!EncodeStruct, CodecP!EncodeStruct, Codec!EncodeTuple, CodecP!EncodeTuple,
  Codec!EncodeUnit, CodecP!EncodeUnit, Codec!EncodeUntagged, CodecP!EncodeUntagged,
  Codec!EncodeVec, CodecP!EncodeVec, Codec!End, CodecP!End, Codec!ErrAtom, CodecP!ErrAtom,
  Codec!False, CodecP!False, Codec!FromStr, CodecP!FromStr, Codec!List, CodecP!List, Codec!Map,
  CodecP!Map, Codec!NilAtom, CodecP!NilAtom, Codec!None, CodecP!None, Codec!Num, CodecP!Num,
  Codec!Ok, CodecP!Ok, Codec!OkAtom, CodecP!OkAtom, Codec!PutFields, CodecP!PutFields,
  Codec!StructKey, CodecP!StructKey, Codec!True, CodecP!True, Codec!Tuple, CodecP!Tuple

LEMMA CodecDecode ==
  ASSUME NEW y, NEW t
  PROVE  CodecP!Decode(y, t) = Codec!Decode(y, t)
<1>1. \A z : CodecP!DecodeVec(z, t) = Codec!DecodeVec(z, t)
  BY SMTT(60) DEF
    Codec!AllOrFirst, CodecP!AllOrFirst, Codec!BadArg, CodecP!BadArg, Codec!DecodeVec,
    CodecP!DecodeVec, Codec!End, CodecP!End, Codec!IsOk, CodecP!IsOk, Codec!Ok, CodecP!Ok,
    Codec!Panics, CodecP!Panics
<1>2. \A ys, from, error : CodecP!DecodeFields(ys, t, from, error) = Codec!DecodeFields(ys, t, from, error)
  BY SMTT(60) DEF
    Codec!AllOrFirst, CodecP!AllOrFirst, Codec!BadArg, CodecP!BadArg, Codec!DecodeFields,
    CodecP!DecodeFields, Codec!IsOk, CodecP!IsOk, Codec!IsTuple, CodecP!IsTuple, Codec!Ok,
    CodecP!Ok
<1>3. \A ys : CodecP!DecodeMap(ys, t) = Codec!DecodeMap(ys, t)
  BY SMTT(60) DEF
    Codec!BadArg, CodecP!BadArg, Codec!DecodeMap, CodecP!DecodeMap, Codec!IsOk, CodecP!IsOk,
    Codec!MapGet, CodecP!MapGet, Codec!Ok, CodecP!Ok
<1>4. \A ys : CodecP!DecodeUntagged(ys, t) = Codec!DecodeUntagged(ys, t)
  BY SMTT(60) DEF
    Codec!DecodeUntagged, CodecP!DecodeUntagged, Codec!Invalid, CodecP!Invalid, Codec!IsOk,
    CodecP!IsOk, Codec!Ok, CodecP!Ok, Codec!Panics, CodecP!Panics
<1>5. \A z, e : CodecP!DecodeResult(z, e, t) = Codec!DecodeResult(z, e, t)
  BY SMTT(60) DEF
    Codec!Atom, CodecP!Atom, Codec!BadArg, CodecP!BadArg, Codec!DecodeResult, CodecP!DecodeResult,
    Codec!ErrAtom, CodecP!ErrAtom, Codec!IsOk, CodecP!IsOk, Codec!IsTuple, CodecP!IsTuple,
    Codec!Ok, CodecP!Ok, Codec!OkAtom, CodecP!OkAtom
<1>6. \A z : CodecP!DecodeOption(z, t) = Codec!DecodeOption(z, t)
  BY SMTT(60) DEF
    Codec!Atom, CodecP!Atom, Codec!BadArg, CodecP!BadArg, Codec!DecodeOption, CodecP!DecodeOption,
    Codec!IsOk, CodecP!IsOk, Codec!NilAtom, CodecP!NilAtom, Codec!None, CodecP!None, Codec!Ok,
    CodecP!Ok, Codec!Panics, CodecP!Panics, Codec!Some, CodecP!Some
<1> QED
  BY <1>1, <1>2, <1>3, <1>4, <1>5, <1>6, SMTT(60) DEF
    Codec!Atom, CodecP!Atom, Codec!BadArg, CodecP!BadArg, Codec!Bin, CodecP!Bin, Codec!Decode,
    CodecP!Decode, Codec!DecodeBool, CodecP!DecodeBool, Codec!DecodeName, CodecP!DecodeName,
    Codec!DecodeNumber, CodecP!DecodeNumber, Codec!DecodeRecord, CodecP!DecodeRecord,
    Codec!DecodeStr, CodecP!DecodeStr, Codec!DecodeStruct, CodecP!DecodeStruct, Codec!DecodeTuple,
    CodecP!DecodeTuple, Codec!DecodeUnit, CodecP!DecodeUnit, Codec!End, CodecP!End, Codec!ErrAtom,
    CodecP!ErrAtom, Codec!False, CodecP!False, Codec!Invalid, CodecP!Invalid, Codec!IsAtom,
    CodecP!IsAtom, Codec!IsOk, CodecP!IsOk, Codec!IsTuple, CodecP!IsTuple, Codec!MapGet,
    CodecP!MapGet, Codec!NilAtom, CodecP!NilAtom, Codec!None, CodecP!None, Codec!Ok, CodecP!Ok,
    Codec!OkAtom, CodecP!OkAtom, Codec!Panics, CodecP!Panics, Codec!Some, CodecP!Some,
    Codec!StructKey, CodecP!StructKey

LEMMA CodecValuesOf ==
  ASSUME NEW y
  PROVE  CodecP!ValuesOf(y) = Codec!ValuesOf(y)
BY SMTT(60) DEF
  Codec!Chars, CodecP!Chars, Codec!FieldVals, CodecP!FieldVals, Codec!None, CodecP!None,
  Codec!Some, CodecP!Some, Codec!ValuesOf, CodecP!ValuesOf

LEMMA CodecNoAtom ==
  ASSUME NEW y, NEW x
  PROVE  CodecP!NoAtom(y, x) = Codec!NoAtom(y, x)
BY SMTT(60) DEF
  Codec!NoAtom, CodecP!NoAtom

LEMMA CodecParts ==
  ASSUME NEW y, NEW x
  PROVE  CodecP!Parts(y, x) = Codec!Parts(y, x)
BY SMTT(60) DEF
  Codec!Atom, CodecP!Atom, Codec!OkAtom, CodecP!OkAtom, Codec!Parts, CodecP!Parts

LEMMA CodecAmbiguous ==
  ASSUME NEW y, NEW x
  PROVE  CodecP!Ambiguous(y, x) = Codec!Ambiguous(y, x)
BY SMTT(60) DEF
  Codec!Ambiguous, CodecP!Ambiguous, Codec!Atom, CodecP!Atom, Codec!Components,
  CodecP!Components, Codec!IsOk, CodecP!IsOk, Codec!NilAtom, CodecP!NilAtom, Codec!None,
  CodecP!None

LEMMA CodecLossy ==
  ASSUME NEW y, NEW x
  PROVE  CodecP!Lossy(y, x) = Codec!Lossy(y, x)
BY SMTT(60) DEF
  Codec!Atom, CodecP!Atom, Codec!False, CodecP!False, Codec!IsOk, CodecP!IsOk, Codec!Lossy,
  CodecP!Lossy, Codec!OkAtom, CodecP!OkAtom, Codec!Parts, CodecP!Parts, Codec!StructKey,
  CodecP!StructKey, Codec!True, CodecP!True

LEMMA NestedEncode ==
  ASSUME NEW y, NEW v
  PROVE  NestedP!Encode(y, v) = Nested!Encode(y, v)
BY SMTT(60) DEF
  Nested!Atom, NestedP!Atom, Nested!BadArg, NestedP!BadArg, Nested!Bin, NestedP!Bin,
  Nested!Encode, NestedP!Encode, Nested!EncodeAll, NestedP!EncodeAll, Nested!EncodeBool,
  NestedP!EncodeBool, Nested!EncodeMap, NestedP!EncodeMap, Nested!EncodeNumber,
  NestedP!EncodeNumber, Nested!EncodeOption, NestedP!EncodeOption, Nested!EncodeRecord,
  NestedP!EncodeRecord, Nested!EncodeResult, NestedP!EncodeResult, Nested!EncodeStr,
  NestedP!EncodeStr, Nested!EncodeStruct, NestedP!EncodeStruct, Nested!EncodeTuple,
  NestedP!EncodeTuple, Nested!EncodeUnit, NestedP!EncodeUnit, Nested!EncodeUntagged,
  NestedP!EncodeUntagged, Nested!EncodeVec, NestedP!EncodeVec, Nested!End, NestedP!End,
  Nested!ErrAtom, NestedP!ErrAtom, Nested!False, NestedP!False, Nested!FromStr, NestedP!FromStr,
  Nested!List, NestedP!List, Nested!Map, NestedP!Map, Nested!NilAtom, NestedP!NilAtom,
  Nested!None, NestedP!None, Nested!Num, NestedP!Num, Nested!Ok, NestedP!Ok, Nested!OkAtom,
  NestedP!OkAtom, Nested!PutFields, NestedP!PutFields, Nested!StructKey, NestedP!StructKey,
  Nested!True, NestedP!True, Nested!Tuple, NestedP!Tuple

LEMMA NestedDecode ==
  ASSUME NEW y, NEW t
  PROVE  NestedP!Decode(y, t) = Nested!Decode(y, t)
<1>1. \A z : NestedP!DecodeVec(z, t) = Nested!DecodeVec(z, t)
  BY SMTT(60) DEF
    Nested!AllOrFirst, NestedP!AllOrFirst, Nested!BadArg, NestedP!BadArg, Nested!DecodeVec,
    NestedP!DecodeVec, Nested!End, NestedP!End, Nested!IsOk, NestedP!IsOk, Nested!Ok, NestedP!Ok,
    Nested!Panics, NestedP!Panics
<1>2. \A ys, from, error : NestedP!DecodeFields(ys, t, from, error) = Nested!DecodeFields(ys, t, from, error)
  BY SMTT(60) DEF
    Nested!AllOrFirst, NestedP!AllOrFirst, Nested!BadArg, NestedP!BadArg, Nested!DecodeFields,
    NestedP!DecodeFields, Nested!IsOk, NestedP!IsOk, Nested!IsTuple, NestedP!IsTuple, Nested!Ok,
    NestedP!Ok
<1>3. \A ys : NestedP!DecodeMap(ys, t) = Nested!DecodeMap(ys, t)
  BY SMTT(60) DEF
    Nested!BadArg, NestedP!BadArg, Nested!DecodeMap, NestedP!DecodeMap, Nested!IsOk, NestedP!IsOk,
    Nested!MapGet, NestedP!MapGet, Nested!Ok, NestedP!Ok
<1>4. \A ys : NestedP!DecodeUntagged(ys, t) = Nested!DecodeUntagged(ys, t)
  BY SMTT(60) DEF
    Nested!DecodeUntagged, NestedP!DecodeUntagged, Nested!Invalid, NestedP!Invalid, Nested!IsOk,
    NestedP!IsOk, Nested!Ok, NestedP!Ok, Nested!Panics, NestedP!Panics
<1>5. \A z, e : NestedP!DecodeResult(z, e, t) = Nested!DecodeResult(z, e, t)
  BY SMTT(60) DEF
    Nested!Atom, NestedP!Atom, Nested!BadArg, NestedP!BadArg, Nested!DecodeResult,
    NestedP!DecodeResult, Nested!ErrAtom, NestedP!ErrAtom, Nested!IsOk, NestedP!IsOk,
    Nested!IsTuple, NestedP!IsTuple, Nested!Ok, NestedP!Ok, Nested!OkAtom, NestedP!OkAtom
<1>6. \A z : NestedP!DecodeOption(z, t) = Nested!DecodeOption(z, t)
  BY SMTT(60) DEF
    Nested!Atom, NestedP!Atom, Nested!BadArg, NestedP!BadArg, Nested!DecodeOption,
    NestedP!DecodeOption, Nested!IsOk, NestedP!IsOk, Nested!NilAtom, NestedP!NilAtom, Nested!None,
    NestedP!None, Nested!Ok, NestedP!Ok, Nested!Panics, NestedP!Panics, Nested!Some, NestedP!Some
<1> QED
  BY <1>1, <1>2, <1>3, <1>4, <1>5, <1>6, SMTT(60) DEF
    Nested!Atom, NestedP!Atom, Nested!BadArg, NestedP!BadArg, Nested!Bin, NestedP!Bin,
    Nested!Decode, NestedP!Decode, Nested!DecodeBool, NestedP!DecodeBool, Nested!DecodeName,
    NestedP!DecodeName, Nested!DecodeNumber, NestedP!DecodeNumber, Nested!DecodeRecord,
    NestedP!DecodeRecord, Nested!DecodeStr, NestedP!DecodeStr, Nested!DecodeStruct,
    NestedP!DecodeStruct, Nested!DecodeTuple, NestedP!DecodeTuple, Nested!DecodeUnit,
    NestedP!DecodeUnit, Nested!End, NestedP!End, Nested!ErrAtom, NestedP!ErrAtom, Nested!False,
    NestedP!False, Nested!Invalid, NestedP!Invalid, Nested!IsAtom, NestedP!IsAtom, Nested!IsOk,
    NestedP!IsOk, Nested!IsTuple, NestedP!IsTuple, Nested!MapGet, NestedP!MapGet, Nested!NilAtom,
    NestedP!NilAtom, Nested!None, NestedP!None, Nested!Ok, NestedP!Ok, Nested!OkAtom,
    NestedP!OkAtom, Nested!Panics, NestedP!Panics, Nested!Some, NestedP!Some, Nested!StructKey,
    NestedP!StructKey

LEMMA NestedValuesOf ==
  ASSUME NEW y
  PROVE  NestedP!ValuesOf(y) = Nested!ValuesOf(y)
BY SMTT(60) DEF
  Nested!Chars, NestedP!Chars, Nested!FieldVals, NestedP!FieldVals, Nested!None, NestedP!None,
  Nested!Some, NestedP!Some, Nested!ValuesOf, NestedP!ValuesOf

LEMMA NestedNoAtom ==
  ASSUME NEW y, NEW x
  PROVE  NestedP!NoAtom(y, x) = Nested!NoAtom(y, x)
BY SMTT(60) DEF
  Nested!NoAtom, NestedP!NoAtom

LEMMA NestedParts ==
  ASSUME NEW y, NEW x
  PROVE  NestedP!Parts(y, x) = Nested!Parts(y, x)
BY SMTT(60) DEF
  Nested!Atom, NestedP!Atom, Nested!OkAtom, NestedP!OkAtom, Nested!Parts, NestedP!Parts

LEMMA NestedAmbiguous ==
  ASSUME NEW y, NEW x
  PROVE  NestedP!Ambiguous(y, x) = Nested!Ambiguous(y, x)
BY SMTT(60) DEF
  Nested!Ambiguous, NestedP!Ambiguous, Nested!Atom, NestedP!Atom, Nested!Components,
  NestedP!Components, Nested!IsOk, NestedP!IsOk, Nested!NilAtom, NestedP!NilAtom, Nested!None,
  NestedP!None

LEMMA NestedLossy ==
  ASSUME NEW y, NEW x
  PROVE  NestedP!Lossy(y, x) = Nested!Lossy(y, x)
BY SMTT(60) DEF
  Nested!Atom, NestedP!Atom, Nested!False, NestedP!False, Nested!IsOk, NestedP!IsOk,
  Nested!Lossy, NestedP!Lossy, Nested!OkAtom, NestedP!OkAtom, Nested!Parts, NestedP!Parts,
  Nested!StructKey, NestedP!StructKey, Nested!True, NestedP!True
-----------------------------------------------------------------------------
(* Terms, types and results are the same at all levels. *)

IsTerm(t)   == NestedP!IsTerm(t)
Elements(t) == NestedP!Elements(t)
IsTag(a)    == NestedP!IsTag(a)
IsType(y)   == NestedP!IsType(y)
HasFields(y) == NestedP!HasFields(y)
Subtypes(y) == NestedP!Subtypes(y)

LEMMA SameIsTerm ==
  ASSUME NEW x
  PROVE  LeafP!IsTerm(x) = IsTerm(x) /\ CodecP!IsTerm(x) = IsTerm(x) /\ NestedP!IsTerm(x) = IsTerm(x)
BY SMTT(60) DEF
  IsTerm, LeafP!Atom, CodecP!Atom, NestedP!Atom, LeafP!BadArg, CodecP!BadArg, NestedP!BadArg,
  LeafP!Bin, CodecP!Bin, NestedP!Bin, LeafP!FromStr, CodecP!FromStr, NestedP!FromStr,
  LeafP!IsMap, CodecP!IsMap, NestedP!IsMap, LeafP!IsSeq, CodecP!IsSeq, NestedP!IsSeq,
  LeafP!IsTerm, CodecP!IsTerm, NestedP!IsTerm, LeafP!List, CodecP!List, NestedP!List, LeafP!Map,
  CodecP!Map, NestedP!Map, LeafP!Num, CodecP!Num, NestedP!Num, LeafP!Ok, CodecP!Ok, NestedP!Ok,
  LeafP!Tuple, CodecP!Tuple, NestedP!Tuple

LEMMA SameElements ==
  ASSUME NEW x
  PROVE  LeafP!Elements(x) = Elements(x) /\ CodecP!Elements(x) = Elements(x) /\ NestedP!Elements(x) = Elements(x)
BY SMTT(60) DEF
  Elements, LeafP!Elements, CodecP!Elements, NestedP!Elements

LEMMA SameIsTag ==
  ASSUME NEW x
  PROVE  LeafP!IsTag(x) = IsTag(x) /\ CodecP!IsTag(x) = IsTag(x) /\ NestedP!IsTag(x) = IsTag(x)
BY SMTT(60) DEF
  IsTag, LeafP!Atom, CodecP!Atom, NestedP!Atom, LeafP!BadArg, CodecP!BadArg, NestedP!BadArg,
  LeafP!Bin, CodecP!Bin, NestedP!Bin, LeafP!FromStr, CodecP!FromStr, NestedP!FromStr,
  LeafP!IsAtom, CodecP!IsAtom, NestedP!IsAtom, LeafP!IsMap, CodecP!IsMap, NestedP!IsMap,
  LeafP!IsSeq, CodecP!IsSeq, NestedP!IsSeq, LeafP!IsTag, CodecP!IsTag, NestedP!IsTag,
  LeafP!IsTerm, CodecP!IsTerm, NestedP!IsTerm, LeafP!List, CodecP!List, NestedP!List, LeafP!Map,
  CodecP!Map, NestedP!Map, LeafP!Num, CodecP!Num, NestedP!Num, LeafP!Ok, CodecP!Ok, NestedP!Ok,
  LeafP!Tuple, CodecP!Tuple, NestedP!Tuple

LEMMA SameIsType ==
  ASSUME NEW x
  PROVE  LeafP!IsType(x) = IsType(x) /\ CodecP!IsType(x) = IsType(x) /\ NestedP!IsType(x) = IsType(x)
BY SMTT(60) DEF
  IsType, LeafP!Atom, CodecP!Atom, NestedP!Atom, LeafP!BadArg, CodecP!BadArg, NestedP!BadArg,
  LeafP!Bin, CodecP!Bin, NestedP!Bin, LeafP!FromStr, CodecP!FromStr, NestedP!FromStr,
  LeafP!IsAtom, CodecP!IsAtom, NestedP!IsAtom, LeafP!IsMap, CodecP!IsMap, NestedP!IsMap,
  LeafP!IsSeq, CodecP!IsSeq, NestedP!IsSeq, LeafP!IsTag, CodecP!IsTag, NestedP!IsTag,
  LeafP!IsTerm, CodecP!IsTerm, NestedP!IsTerm, LeafP!IsType, CodecP!IsType, NestedP!IsType,
  LeafP!List, CodecP!List, NestedP!List, LeafP!Map, CodecP!Map, NestedP!Map, LeafP!NifMap,
  CodecP!NifMap, NestedP!NifMap, LeafP!NifRecord, CodecP!NifRecord, NestedP!NifRecord,
  LeafP!NifStruct, CodecP!NifStruct, NestedP!NifStruct, LeafP!NifTuple, CodecP!NifTuple,
  NestedP!NifTuple, LeafP!NifUnitEnum, CodecP!NifUnitEnum, NestedP!NifUnitEnum,
  LeafP!NifUntaggedEnum, CodecP!NifUntaggedEnum, NestedP!NifUntaggedEnum, LeafP!Num, CodecP!Num,
  NestedP!Num, LeafP!Ok, CodecP!Ok, NestedP!Ok, LeafP!StructKey, CodecP!StructKey,
  NestedP!StructKey, LeafP!Tuple, CodecP!Tuple, NestedP!Tuple

LEMMA SameHasFields ==
  ASSUME NEW x
  PROVE  LeafP!HasFields(x) = HasFields(x) /\ CodecP!HasFields(x) = HasFields(x) /\ NestedP!HasFields(x) = HasFields(x)
BY SMTT(60) DEF
  HasFields, LeafP!HasFields, CodecP!HasFields, NestedP!HasFields

LEMMA SameSubtypes ==
  ASSUME NEW x
  PROVE  LeafP!Subtypes(x) = Subtypes(x) /\ CodecP!Subtypes(x) = Subtypes(x) /\ NestedP!Subtypes(x) = Subtypes(x)
BY SMTT(60) DEF
  Subtypes, LeafP!Subtypes, CodecP!Subtypes, NestedP!Subtypes

LEMMA SameResults ==
  ASSUME NEW x
  PROVE  /\ LeafP!Ok(x) = Ok(x) /\ LeafP!IsOk(x) = IsOk(x) /\ LeafP!Panics = Panics
         /\ LeafP!End = End /\ LeafP!NilAtom = NilAtom
         /\ CodecP!Ok(x) = Ok(x) /\ CodecP!IsOk(x) = IsOk(x) /\ CodecP!Panics = Panics
         /\ CodecP!End = End /\ CodecP!NilAtom = NilAtom
         /\ NestedP!Ok(x) = Ok(x) /\ NestedP!IsOk(x) = IsOk(x) /\ NestedP!Panics = Panics
         /\ NestedP!End = End /\ NestedP!NilAtom = NilAtom
BY DEF
  Ok, IsOk, Panics, End, Atom, NilAtom, LeafP!Ok, CodecP!Ok, NestedP!Ok, LeafP!IsOk,
  CodecP!IsOk, NestedP!IsOk, LeafP!Panics, CodecP!Panics, NestedP!Panics, LeafP!End, CodecP!End,
  NestedP!End, LeafP!Atom, CodecP!Atom, NestedP!Atom, LeafP!NilAtom, CodecP!NilAtom,
  NestedP!NilAtom
-----------------------------------------------------------------------------
(* Types of the three levels.  A name that no atom has is not encoded, so that *)
(* names are no components.                                                    *)

Simple(y) == IsType(y) /\ y[1] \in {"wide", "byte", "bool", "str", "name", "unit"}

Flat(y) ==
  IsType(y) /\ HasFields(y) /\ \A z \in Subtypes(y) : Simple(z) /\ z[1] # "name"

Deep(y) ==
  IsType(y) /\ HasFields(y) /\ \A z \in Subtypes(y) : Flat(z) /\ z[1] # "name"

\* Terms whose elements, and theirs, are terms.
Depth0(t) == IsTerm(t) /\ Elements(t) = {}
Depth1(t) == IsTerm(t) /\ \A x \in Elements(t) : Depth0(x)
Depth2(t) == IsTerm(t) /\ \A x \in Elements(t) : Depth1(x)
Depth3(t) == IsTerm(t) /\ \A x \in Elements(t) : Depth2(x)

\* The depth of a term is a bound.
LEMMA DepthsGrow ==
  ASSUME NEW t
  PROVE  /\ Depth0(t) => Depth1(t)
         /\ Depth1(t) => Depth2(t)
         /\ Depth2(t) => Depth3(t)
BY DEF Depth0, Depth1, Depth2, Depth3

\* Elements of a term are terms, down to the depth of the types.
LEMMA DepthCloses ==
  ASSUME NEW t, Depth3(t)
  PROVE  IsTerm(t) /\ \A x \in Elements(t) : Depth3(x)
BY DepthsGrow DEF Depth3

\* An atom has no elements.
LEMMA TagDepth ==
  ASSUME NEW a, IsTag(a)
  PROVE  Depth0(a) /\ a[1] = "atom"
BY DEF IsTag, NestedP!IsTag, NestedP!IsAtom, Depth0, IsTerm, Elements, NestedP!Elements

\* Simple types have no components.
LEMMA SimpleHasNoParts ==
  ASSUME NEW y, Simple(y)
  PROVE  Subtypes(y) = {} /\ HasFields(y)
BY DEF Simple, Subtypes, NestedP!Subtypes, HasFields, NestedP!HasFields

\* The levels contain each other.
LEMMA SimpleIsFlat ==
  ASSUME NEW y, Simple(y)
  PROVE  Flat(y)
BY SimpleHasNoParts DEF Simple, Flat

LEMMA FlatIsDeep ==
  ASSUME NEW y, Flat(y)
  PROVE  Deep(y)
BY SimpleIsFlat DEF Flat, Deep

-----------------------------------------------------------------------------
(* Codecs of types without components *)

\* A value that is not ambiguous comes back.
LEMMA LeafRoundTrip ==
  ASSUME NEW y, Simple(y), NEW v \in Leaf!ValuesOf(y), ~Leaf!NoAtom(y, v)
  PROVE  Leaf!Decode(y, Leaf!Encode(y, v)) = Ok(v)
<1>1. LeafP!IsType(y) /\ v \in LeafP!ValuesOf(y) /\ ~LeafP!NoAtom(y, v)
  BY SameIsType, LeafValuesOf, LeafNoAtom DEF Simple
<1>2. LeafP!Components(y, v) = {}
  <2>1. LeafP!Subtypes(y) = {}
    BY SimpleHasNoParts, SameSubtypes
  <2>2. \A p \in LeafP!Components(y, v) : p[1] \in LeafP!Subtypes(y)
    BY <1>1, LeafP!ComponentTypes, NifTermsAssumption
  <2> QED
    BY <2>1, <2>2
<1>3. ~LeafP!Ambiguous(y, v)
  BY <1>2 DEF LeafP!Ambiguous, Simple
<1>4. LeafP!PartsKept(y, v) /\ LeafP!NoPanicBefore(y, v)
  BY <1>2 DEF LeafP!PartsKept, LeafP!NoPanicBefore, Simple
<1>5. LeafP!Decode(y, LeafP!Encode(y, v)) = LeafP!Ok(v)
  BY <1>1, <1>3, <1>4, LeafP!RoundTrips, NifTermsAssumption, NifTranscodeAssumption
<1> QED
  BY <1>5, LeafEncode, LeafDecode, SameResults

\* A type without components has no parts.
LEMMA LeafNoParts ==
  ASSUME NEW y, Simple(y), NEW t
  PROVE  LeafP!Parts(y, t) = {}
<1>1. LeafP!Subtypes(y) = {} /\ LeafP!IsType(y)
  BY SimpleHasNoParts, SameSubtypes, SameIsType DEF Simple
<1>2. \A p \in LeafP!Parts(y, t) : p[1] \in LeafP!Subtypes(y)
  BY <1>1, LeafP!PartTypes, NifTermsAssumption
<1> QED
  BY <1>1, <1>2

\* What is taken is the term of the result.
LEMMA LeafExact ==
  ASSUME NEW y, Simple(y), NEW t, IsTerm(t), IsOk(Leaf!Decode(y, t)), ~Leaf!Lossy(y, t)
  PROVE  Leaf!Encode(y, Leaf!Decode(y, t)[2]) = t
<1>1. LeafP!IsType(y) /\ LeafP!HasFields(y) /\ LeafP!IsTerm(t)
  BY SameIsType, SameHasFields, SameIsTerm, SimpleHasNoParts DEF Simple
<1>2. LeafP!PartsExact(y, t)
  BY LeafNoParts DEF LeafP!PartsExact
<1>3. LeafP!IsOk(LeafP!Decode(y, t)) /\ ~LeafP!Lossy(y, t)
  BY LeafDecode, SameResults, LeafLossy
<1>4. LeafP!Encode(y, LeafP!Decode(y, t)[2]) = t
  BY <1>1, <1>2, <1>3, LeafP!DecodesExactly, NifTermsAssumption
<1> QED
  BY <1>4, LeafEncode, LeafDecode

\* Decode does not panic.
LEMMA LeafPanics ==
  ASSUME NEW y, Simple(y), NEW t, IsTerm(t)
  PROVE  Leaf!Decode(y, t) # Panics
<1>1. LeafP!IsType(y) /\ LeafP!IsTerm(t)
  BY SameIsType, SameIsTerm DEF Simple
<1>2. ~LeafP!PartPanics(y, t) /\ y[1] # "vec"
  BY LeafNoParts DEF LeafP!PartPanics, Simple
<1>3. LeafP!Decode(y, t) # LeafP!Panics
  BY <1>1, <1>2, LeafP!PanicsFrom, NifTermsAssumption
<1> QED
  BY <1>3, LeafDecode, SameResults

\* What is encoded is a term, no deeper than its type, and no improper list.
LEMMA LeafEncodes ==
  ASSUME NEW y, Simple(y), NEW v \in Leaf!ValuesOf(y), ~Leaf!NoAtom(y, v)
  PROVE  Depth1(Leaf!Encode(y, v)) /\ ~Improper(Leaf!Encode(y, v))
<1>1. LeafP!IsType(y) /\ v \in LeafP!ValuesOf(y) /\ ~LeafP!NoAtom(y, v)
  BY SameIsType, LeafValuesOf, LeafNoAtom DEF Simple
<1>2. LeafP!Components(y, v) = {}
  <2>1. LeafP!Subtypes(y) = {}
    BY SimpleHasNoParts, SameSubtypes
  <2>2. \A p \in LeafP!Components(y, v) : p[1] \in LeafP!Subtypes(y)
    BY <1>1, LeafP!ComponentTypes, NifTermsAssumption
  <2> QED
    BY <2>1, <2>2
<1>3. LeafP!MadeOf(y, v, LeafP!Encode(y, v))
  BY <1>1, <1>2, LeafP!EncodesTerms, NifTermsAssumption, NifTranscodeAssumption
<1> DEFINE w == Leaf!Encode(y, v)
<1>4. LeafP!MadeOf(y, v, w)
  BY <1>3, LeafEncode
<1> HIDE DEF w
<1>5. /\ LeafP!IsTerm(w) /\ (w[1] = "list" => w[3] = LeafP!End)
      /\ \A x \in LeafP!Elements(w) : LeafP!IsTag(x)
  BY <1>2, <1>4 DEF LeafP!MadeOf
<1>6. IsTerm(w) /\ \A x \in Elements(w) : IsTag(x)
  BY <1>5, SameIsTerm, SameElements, SameIsTag
<1>7. Depth1(w)
  BY <1>6, TagDepth DEF Depth1
<1>8. ~Improper(w)
  BY <1>5, SameResults DEF Improper
<1> QED
  BY <1>7, <1>8 DEF w
-----------------------------------------------------------------------------
(* Codecs of types with such components *)

\* The components of a value are values of the level below.
LEMMA CodecComponents ==
  ASSUME NEW y, Flat(y), NEW v \in Codec!ValuesOf(y), NEW p \in CodecP!Components(y, v)
  PROVE  /\ p[1] \in Subtypes(y) /\ Simple(p[1]) /\ p[2] \in Leaf!ValuesOf(p[1])
         /\ ~Leaf!NoAtom(p[1], p[2])
<1>1. CodecP!IsType(y) /\ v \in CodecP!ValuesOf(y)
  BY SameIsType, CodecValuesOf DEF Flat
<1>2. p[1] \in CodecP!Subtypes(y) /\ p[2] \in Leaf!ValuesOf(p[1])
  BY <1>1, CodecP!ComponentTypes, NifTermsAssumption
<1>3. p[1] \in Subtypes(y) /\ Simple(p[1]) /\ p[1][1] # "name"
  BY <1>2, SameSubtypes DEF Flat
<1> QED
  BY <1>2, <1>3 DEF Leaf!NoAtom

\* A value that is not ambiguous comes back.
LEMMA CodecRoundTrip ==
  ASSUME NEW y, Flat(y), NEW v \in Codec!ValuesOf(y),
         ~Codec!NoAtom(y, v), ~Codec!Ambiguous(y, v)
  PROVE  Codec!Decode(y, Codec!Encode(y, v)) = Ok(v)
<1>1. /\ CodecP!IsType(y) /\ v \in CodecP!ValuesOf(y)
      /\ ~CodecP!NoAtom(y, v) /\ ~CodecP!Ambiguous(y, v)
  BY SameIsType, CodecValuesOf, CodecNoAtom, CodecAmbiguous DEF Flat
<1>2. CodecP!PartsKept(y, v)
  <2> SUFFICES ASSUME NEW p \in CodecP!Components(y, v)
               PROVE  Leaf!Decode(p[1], Leaf!Encode(p[1], p[2])) = CodecP!Ok(p[2])
    BY DEF CodecP!PartsKept
  <2>1. ~Leaf!Ambiguous(p[1], p[2])
    BY <1>1 DEF CodecP!Ambiguous
  <2> QED
    BY <2>1, CodecComponents, LeafRoundTrip, SameResults
<1>3. CodecP!NoPanicBefore(y, v)
  <2>1. ASSUME y[1] = "option" PROVE Leaf!Decode(y[2], NilAtom) # Panics
    <3>1. Simple(y[2])
      BY <2>1 DEF Flat, Subtypes, NestedP!Subtypes
    <3>2. IsTag(NilAtom)
      BY NestedP!TagsAre, NifTermsAssumption, SameResults DEF IsTag
    <3>3. IsTerm(NilAtom) /\ Depth3(NilAtom) /\ ~Improper(NilAtom)
      BY <3>2, TagDepth, DepthsGrow DEF Depth0, Improper
    <3> QED
      BY <3>1, <3>3, LeafPanics
  <2>2. ASSUME y[1] = "untagged", NEW i \in 1..(v[2] - 1)
        PROVE  Leaf!Decode(y[2][i], Leaf!Encode(y[2][v[2]], v[3])) # Panics
    <3>1. <<y[2][v[2]], v[3]>> \in CodecP!Components(y, v) /\ y[2][i] \in CodecP!Subtypes(y)
      BY <1>1, <2>2, CodecP!EarlierVariants, NifTermsAssumption
    <3>2. Simple(y[2][i])
      BY <3>1, SameSubtypes DEF Flat
    <3> DEFINE w == Leaf!Encode(y[2][v[2]], v[3])
               p == <<y[2][v[2]], v[3]>>
    <3>3. /\ Simple(p[1]) /\ p[2] \in Leaf!ValuesOf(p[1]) /\ ~Leaf!NoAtom(p[1], p[2])
      BY <3>1, CodecComponents
    <3>4. Depth1(w) /\ ~Improper(w)
      BY <3>3, LeafEncodes
    <3>5. IsTerm(w) /\ Depth3(w)
      BY <3>4, DepthsGrow DEF Depth1
    <3> QED
      BY <3>2, <3>4, <3>5, LeafPanics
  <2> QED
    BY <2>1, <2>2, SameResults DEF CodecP!NoPanicBefore
<1>4. CodecP!Decode(y, CodecP!Encode(y, v)) = CodecP!Ok(v)
  BY <1>1, <1>2, <1>3, CodecP!RoundTrips, NifTermsAssumption, NifTranscodeAssumption
<1> QED
  BY <1>4, CodecEncode, CodecDecode, SameResults

\* Its parts are given to codecs of the level below.
LEMMA CodecPartsIn ==
  ASSUME NEW y, Flat(y), NEW t, NEW p \in CodecP!Parts(y, t)
  PROVE  Simple(p[1])
<1>1. p[1] \in CodecP!Subtypes(y)
  BY CodecP!PartTypes, NifTermsAssumption, SameIsType DEF Flat
<1> QED
  BY <1>1, SameSubtypes DEF Flat

\* What is taken is the term of the result.
LEMMA CodecExact ==
  ASSUME NEW y, Flat(y), NEW t, Depth3(t), IsOk(Codec!Decode(y, t)), ~Codec!Lossy(y, t)
  PROVE  Codec!Encode(y, Codec!Decode(y, t)[2]) = t
<1>1. CodecP!IsType(y) /\ CodecP!HasFields(y) /\ CodecP!IsTerm(t)
  BY SameIsType, SameHasFields, SameIsTerm DEF Flat, Depth3
<1>2. CodecP!IsOk(CodecP!Decode(y, t)) /\ ~CodecP!Lossy(y, t)
  BY CodecDecode, SameResults, CodecLossy
<1>3. CodecP!PartsExact(y, t)
  <2> SUFFICES ASSUME NEW p \in CodecP!Parts(y, t), CodecP!IsOk(Leaf!Decode(p[1], p[2]))
               PROVE  Leaf!Encode(p[1], Leaf!Decode(p[1], p[2])[2]) = p[2]
    BY DEF CodecP!PartsExact
  <2>1. p[2] = t \/ p[2] \in Elements(t)
    BY <1>1, <1>2, CodecP!PartsWithin, NifTermsAssumption, SameElements
  <2>2. Depth3(p[2]) /\ IsTerm(p[2])
    BY <2>1, DepthCloses
  <2>3. Simple(p[1])
    BY CodecPartsIn
  <2>4. ~Leaf!Lossy(p[1], p[2])
    BY <1>2 DEF CodecP!Lossy
  <2>5. IsOk(Leaf!Decode(p[1], p[2]))
    BY SameResults
  <2> QED
    BY <2>2, <2>3, <2>4, <2>5, LeafExact
<1>4. CodecP!Encode(y, CodecP!Decode(y, t)[2]) = t
  BY <1>1, <1>2, <1>3, CodecP!DecodesExactly, NifTermsAssumption
<1> QED
  BY <1>4, CodecEncode, CodecDecode

\* Where a panic comes from: the list itself, or a part of the term.
LEMMA CodecPanicsFrom ==
  ASSUME NEW y, Flat(y), NEW t, Depth3(t), Codec!Decode(y, t) = Panics
  PROVE  \/ y[1] = "vec" /\ Improper(t)
         \/ \E p \in Codec!Parts(y, t) : Simple(p[1]) /\ Depth3(p[2])
              /\ (p[2] = t \/ p[2] \in Elements(t)) /\ Leaf!Decode(p[1], p[2]) = Panics
<1>1. CodecP!IsType(y) /\ CodecP!IsTerm(t) /\ CodecP!Decode(y, t) = CodecP!Panics
  BY SameIsType, SameIsTerm, CodecDecode, SameResults DEF Flat, Depth3
<1>2. (y[1] = "vec" /\ t[1] = "list" /\ t[3] # CodecP!End) \/ CodecP!PartPanics(y, t)
  BY <1>1, CodecP!PanicsFrom, NifTermsAssumption
<1>3. CASE y[1] = "vec" /\ t[1] = "list" /\ t[3] # CodecP!End
  BY <1>3, SameResults DEF Improper
<1>4. CASE CodecP!PartPanics(y, t)
  <2>1. PICK p \in CodecP!Parts(y, t) :
          (p[2] = t \/ p[2] \in CodecP!Elements(t)) /\ Leaf!Decode(p[1], p[2]) = CodecP!Panics
    BY <1>4 DEF CodecP!PartPanics
  <2>2. p[2] = t \/ p[2] \in Elements(t)
    BY <2>1, SameElements
  <2>3. Depth3(p[2])
    BY <2>2, DepthCloses
  <2>4. p \in Codec!Parts(y, t) /\ Simple(p[1]) /\ Leaf!Decode(p[1], p[2]) = Panics
    BY <2>1, CodecParts, CodecPartsIn, SameResults
  <2> QED
    BY <2>2, <2>3, <2>4
<1> QED
  BY <1>2, <1>3, <1>4

\* What is encoded is a term, no deeper than its type, and no improper list.
LEMMA CodecEncodes ==
  ASSUME NEW y, Flat(y), NEW v \in Codec!ValuesOf(y), ~Codec!NoAtom(y, v)
  PROVE  Depth2(Codec!Encode(y, v)) /\ ~Improper(Codec!Encode(y, v))
<1>1. CodecP!IsType(y) /\ v \in CodecP!ValuesOf(y) /\ ~CodecP!NoAtom(y, v)
  BY SameIsType, CodecValuesOf, CodecNoAtom DEF Flat
<1> DEFINE w == Codec!Encode(y, v)
<1>2. \/ \E p \in CodecP!Components(y, v) : w = Leaf!Encode(p[1], p[2])
      \/ CodecP!MadeOf(y, v, w)
  BY <1>1, CodecP!EncodesTerms, NifTermsAssumption, NifTranscodeAssumption, CodecEncode
<1>3. \A p \in CodecP!Components(y, v) :
        Depth1(Leaf!Encode(p[1], p[2])) /\ ~Improper(Leaf!Encode(p[1], p[2]))
  BY CodecComponents, LeafEncodes
<1> HIDE DEF w
<1>4. CASE \E p \in CodecP!Components(y, v) : w = Leaf!Encode(p[1], p[2])
  BY <1>3, <1>4, DepthsGrow DEF w
<1>5. CASE CodecP!MadeOf(y, v, w)
  <2>1. /\ CodecP!IsTerm(w) /\ (w[1] = "list" => w[3] = CodecP!End)
        /\ \A x \in CodecP!Elements(w) : CodecP!IsTag(x)
             \/ \E p \in CodecP!Components(y, v) : x = Leaf!Encode(p[1], p[2])
    BY <1>5 DEF CodecP!MadeOf
  <2>2. \A x \in Elements(w) : IsTag(x) \/ Depth1(x)
    BY <1>3, <2>1, SameElements, SameIsTag
  <2>3. \A x \in Elements(w) : Depth1(x)
    BY <2>2, TagDepth, DepthsGrow
  <2>4. Depth2(w)
    BY <2>1, <2>3, SameIsTerm DEF Depth2
  <2>5. ~Improper(w)
    BY <2>1, SameResults DEF Improper
  <2> QED
    BY <2>4, <2>5 DEF w
<1> QED
  BY <1>2, <1>4, <1>5

\* Only a vector of an improper list panics on this level.
LEMMA CodecPanics ==
  ASSUME NEW y, Flat(y), NEW t, Depth3(t), Codec!Decode(y, t) = Panics
  PROVE  y[1] = "vec" /\ Improper(t)
BY CodecPanicsFrom, LeafPanics DEF Depth3

-----------------------------------------------------------------------------
(* Codecs of types with components that have components *)

\* The components of a value are values of the level below.
LEMMA NestedComponents ==
  ASSUME NEW y, Deep(y), NEW v \in Nested!ValuesOf(y), NEW p \in NestedP!Components(y, v)
  PROVE  /\ p[1] \in Subtypes(y) /\ Flat(p[1]) /\ p[2] \in Codec!ValuesOf(p[1])
         /\ ~Codec!NoAtom(p[1], p[2])
<1>1. NestedP!IsType(y) /\ v \in NestedP!ValuesOf(y)
  BY SameIsType, NestedValuesOf DEF Deep
<1>2. p[1] \in NestedP!Subtypes(y) /\ p[2] \in Codec!ValuesOf(p[1])
  BY <1>1, NestedP!ComponentTypes, NifTermsAssumption
<1>3. p[1] \in Subtypes(y) /\ Flat(p[1]) /\ p[1][1] # "name"
  BY <1>2, SameSubtypes DEF Deep
<1> QED
  BY <1>2, <1>3 DEF Codec!NoAtom

\* A value that is not ambiguous comes back.
LEMMA NestedRoundTrip ==
  ASSUME NEW y, Deep(y), NEW v \in Nested!ValuesOf(y),
         ~Nested!NoAtom(y, v), ~Nested!Ambiguous(y, v)
  PROVE  Nested!Decode(y, Nested!Encode(y, v)) = Ok(v)
<1>1. /\ NestedP!IsType(y) /\ v \in NestedP!ValuesOf(y)
      /\ ~NestedP!NoAtom(y, v) /\ ~NestedP!Ambiguous(y, v)
  BY SameIsType, NestedValuesOf, NestedNoAtom, NestedAmbiguous DEF Deep
<1>2. NestedP!PartsKept(y, v)
  <2> SUFFICES ASSUME NEW p \in NestedP!Components(y, v)
               PROVE  Codec!Decode(p[1], Codec!Encode(p[1], p[2])) = NestedP!Ok(p[2])
    BY DEF NestedP!PartsKept
  <2>1. ~Codec!Ambiguous(p[1], p[2])
    BY <1>1 DEF NestedP!Ambiguous
  <2> QED
    BY <2>1, NestedComponents, CodecRoundTrip, SameResults
<1>3. NestedP!NoPanicBefore(y, v)
  <2>1. ASSUME y[1] = "option" PROVE Codec!Decode(y[2], NilAtom) # Panics
    <3>1. Flat(y[2])
      BY <2>1 DEF Deep, Subtypes, NestedP!Subtypes
    <3>2. IsTag(NilAtom)
      BY NestedP!TagsAre, NifTermsAssumption, SameResults DEF IsTag
    <3>3. IsTerm(NilAtom) /\ Depth3(NilAtom) /\ ~Improper(NilAtom)
      BY <3>2, TagDepth, DepthsGrow DEF Depth0, Improper
    <3> QED
      BY <3>1, <3>3, CodecPanics
  <2>2. ASSUME y[1] = "untagged", NEW i \in 1..(v[2] - 1)
        PROVE  Codec!Decode(y[2][i], Codec!Encode(y[2][v[2]], v[3])) # Panics
    <3>1. <<y[2][v[2]], v[3]>> \in NestedP!Components(y, v) /\ y[2][i] \in NestedP!Subtypes(y)
      BY <1>1, <2>2, NestedP!EarlierVariants, NifTermsAssumption
    <3>2. Flat(y[2][i])
      BY <3>1, SameSubtypes DEF Deep
    <3> DEFINE w == Codec!Encode(y[2][v[2]], v[3])
               p == <<y[2][v[2]], v[3]>>
    <3>3. /\ Flat(p[1]) /\ p[2] \in Codec!ValuesOf(p[1]) /\ ~Codec!NoAtom(p[1], p[2])
      BY <3>1, NestedComponents
    <3>4. Depth2(w) /\ ~Improper(w)
      BY <3>3, CodecEncodes
    <3>5. IsTerm(w) /\ Depth3(w)
      BY <3>4, DepthsGrow DEF Depth2
    <3> QED
      BY <3>2, <3>4, <3>5, CodecPanics
  <2> QED
    BY <2>1, <2>2, SameResults DEF NestedP!NoPanicBefore
<1>4. NestedP!Decode(y, NestedP!Encode(y, v)) = NestedP!Ok(v)
  BY <1>1, <1>2, <1>3, NestedP!RoundTrips, NifTermsAssumption, NifTranscodeAssumption
<1> QED
  BY <1>4, NestedEncode, NestedDecode, SameResults

\* Its parts are given to codecs of the level below.
LEMMA NestedPartsIn ==
  ASSUME NEW y, Deep(y), NEW t, NEW p \in NestedP!Parts(y, t)
  PROVE  Flat(p[1])
<1>1. p[1] \in NestedP!Subtypes(y)
  BY NestedP!PartTypes, NifTermsAssumption, SameIsType DEF Deep
<1> QED
  BY <1>1, SameSubtypes DEF Deep

\* What is taken is the term of the result.
LEMMA NestedExact ==
  ASSUME NEW y, Deep(y), NEW t, Depth3(t), IsOk(Nested!Decode(y, t)), ~Nested!Lossy(y, t)
  PROVE  Nested!Encode(y, Nested!Decode(y, t)[2]) = t
<1>1. NestedP!IsType(y) /\ NestedP!HasFields(y) /\ NestedP!IsTerm(t)
  BY SameIsType, SameHasFields, SameIsTerm DEF Deep, Depth3
<1>2. NestedP!IsOk(NestedP!Decode(y, t)) /\ ~NestedP!Lossy(y, t)
  BY NestedDecode, SameResults, NestedLossy
<1>3. NestedP!PartsExact(y, t)
  <2> SUFFICES ASSUME NEW p \in NestedP!Parts(y, t), NestedP!IsOk(Codec!Decode(p[1], p[2]))
               PROVE  Codec!Encode(p[1], Codec!Decode(p[1], p[2])[2]) = p[2]
    BY DEF NestedP!PartsExact
  <2>1. p[2] = t \/ p[2] \in Elements(t)
    BY <1>1, <1>2, NestedP!PartsWithin, NifTermsAssumption, SameElements
  <2>2. Depth3(p[2]) /\ IsTerm(p[2])
    BY <2>1, DepthCloses
  <2>3. Flat(p[1])
    BY NestedPartsIn
  <2>4. ~Codec!Lossy(p[1], p[2])
    BY <1>2 DEF NestedP!Lossy
  <2>5. IsOk(Codec!Decode(p[1], p[2]))
    BY SameResults
  <2> QED
    BY <2>2, <2>3, <2>4, <2>5, CodecExact
<1>4. NestedP!Encode(y, NestedP!Decode(y, t)[2]) = t
  BY <1>1, <1>2, <1>3, NestedP!DecodesExactly, NifTermsAssumption
<1> QED
  BY <1>4, NestedEncode, NestedDecode

\* Where a panic comes from: the list itself, or a part of the term.
LEMMA NestedPanicsFrom ==
  ASSUME NEW y, Deep(y), NEW t, Depth3(t), Nested!Decode(y, t) = Panics
  PROVE  \/ y[1] = "vec" /\ Improper(t)
         \/ \E p \in Nested!Parts(y, t) : Flat(p[1]) /\ Depth3(p[2])
              /\ (p[2] = t \/ p[2] \in Elements(t)) /\ Codec!Decode(p[1], p[2]) = Panics
<1>1. NestedP!IsType(y) /\ NestedP!IsTerm(t) /\ NestedP!Decode(y, t) = NestedP!Panics
  BY SameIsType, SameIsTerm, NestedDecode, SameResults DEF Deep, Depth3
<1>2. (y[1] = "vec" /\ t[1] = "list" /\ t[3] # NestedP!End) \/ NestedP!PartPanics(y, t)
  BY <1>1, NestedP!PanicsFrom, NifTermsAssumption
<1>3. CASE y[1] = "vec" /\ t[1] = "list" /\ t[3] # NestedP!End
  BY <1>3, SameResults DEF Improper
<1>4. CASE NestedP!PartPanics(y, t)
  <2>1. PICK p \in NestedP!Parts(y, t) :
          (p[2] = t \/ p[2] \in NestedP!Elements(t)) /\ Codec!Decode(p[1], p[2]) = NestedP!Panics
    BY <1>4 DEF NestedP!PartPanics
  <2>2. p[2] = t \/ p[2] \in Elements(t)
    BY <2>1, SameElements
  <2>3. Depth3(p[2])
    BY <2>2, DepthCloses
  <2>4. p \in Nested!Parts(y, t) /\ Flat(p[1]) /\ Codec!Decode(p[1], p[2]) = Panics
    BY <2>1, NestedParts, NestedPartsIn, SameResults
  <2> QED
    BY <2>2, <2>3, <2>4
<1> QED
  BY <1>2, <1>3, <1>4

\* What is encoded is a term, no deeper than its type, and no improper list.
LEMMA NestedEncodes ==
  ASSUME NEW y, Deep(y), NEW v \in Nested!ValuesOf(y), ~Nested!NoAtom(y, v)
  PROVE  Depth3(Nested!Encode(y, v)) /\ ~Improper(Nested!Encode(y, v))
<1>1. NestedP!IsType(y) /\ v \in NestedP!ValuesOf(y) /\ ~NestedP!NoAtom(y, v)
  BY SameIsType, NestedValuesOf, NestedNoAtom DEF Deep
<1> DEFINE w == Nested!Encode(y, v)
<1>2. \/ \E p \in NestedP!Components(y, v) : w = Codec!Encode(p[1], p[2])
      \/ NestedP!MadeOf(y, v, w)
  BY <1>1, NestedP!EncodesTerms, NifTermsAssumption, NifTranscodeAssumption, NestedEncode
<1>3. \A p \in NestedP!Components(y, v) :
        Depth2(Codec!Encode(p[1], p[2])) /\ ~Improper(Codec!Encode(p[1], p[2]))
  BY NestedComponents, CodecEncodes
<1> HIDE DEF w
<1>4. CASE \E p \in NestedP!Components(y, v) : w = Codec!Encode(p[1], p[2])
  BY <1>3, <1>4, DepthsGrow DEF w
<1>5. CASE NestedP!MadeOf(y, v, w)
  <2>1. /\ NestedP!IsTerm(w) /\ (w[1] = "list" => w[3] = NestedP!End)
        /\ \A x \in NestedP!Elements(w) : NestedP!IsTag(x)
             \/ \E p \in NestedP!Components(y, v) : x = Codec!Encode(p[1], p[2])
    BY <1>5 DEF NestedP!MadeOf
  <2>2. \A x \in Elements(w) : IsTag(x) \/ Depth2(x)
    BY <1>3, <2>1, SameElements, SameIsTag
  <2>3. \A x \in Elements(w) : Depth2(x)
    BY <2>2, TagDepth, DepthsGrow
  <2>4. Depth3(w)
    BY <2>1, <2>3, SameIsTerm DEF Depth3
  <2>5. ~Improper(w)
    BY <2>1, SameResults DEF Improper
  <2> QED
    BY <2>4, <2>5 DEF w
<1> QED
  BY <1>2, <1>4, <1>5
-----------------------------------------------------------------------------
(* The types and terms of the behaviours *)

\* A character is the name of an atom.
LEMMA NamesAre ==
  ASSUME NEW c
  PROVE  IsTag(Atom(<<c>>))
<1>1. ~(Len(<<c>>) > MaxName)
  BY NifTermsAssumption
<1>2. NestedP!IsTag(NestedP!Atom(<<c>>))
  BY <1>1 DEF NestedP!IsTag, NestedP!IsTerm, NestedP!IsAtom, NestedP!Atom
<1> QED
  BY <1>2 DEF IsTag, Atom, NestedP!Atom

\* Types without components.
LEMMA SimpleTypes ==
  \A y \in LeafTypes : Simple(y)
<1>1. IsTag(TagAtom) /\ IsTag(NilAtom)
  BY NamesAre DEF TagAtom, NilAtom
<1>2. IsType(Leaf!NifUnitEnum({TagAtom, NilAtom}))
  BY <1>1 DEF IsType, NestedP!IsType, IsTag, Leaf!NifUnitEnum, NestedP!NifUnitEnum
<1>3. Simple(Leaf!NifUnitEnum({TagAtom, NilAtom}))
  BY <1>2 DEF Simple, Leaf!NifUnitEnum
<1> QED
  BY <1>3 DEF LeafTypes, WideT, ByteT, BoolT, StrT, NameT, Simple, IsType, NestedP!IsType

\* Types with components of the first level.
LEMMA FlatTypesAreFlat ==
  \A y \in FlatTypes : Flat(y)
<1>1. \A z \in {WideT, ByteT, BoolT, StrT} : Simple(z) /\ z[1] # "name"
  BY SimpleTypes DEF LeafTypes, WideT, ByteT, BoolT, StrT
<1>2. ASSUME NEW z \in {WideT, ByteT, BoolT, StrT} PROVE Flat(OptionT(z)) /\ Flat(VecT(z))
  BY <1>1, <1>2 DEF Flat, OptionT, VecT, IsType, NestedP!IsType, HasFields, NestedP!HasFields,
                    Subtypes, NestedP!Subtypes
<1>3. Flat(ResultT(WideT, StrT))
  BY <1>1 DEF Flat, ResultT, IsType, NestedP!IsType, HasFields, NestedP!HasFields,
              Subtypes, NestedP!Subtypes
<1>4. ASSUME NEW n \in Nat, NEW s, s = [i \in 1..n |-> s[i]] PROVE NestedP!IsSeq(s)
  BY <1>4, NestedP!SeqOf, NifTermsAssumption
<1>5. NestedP!IsSeq(<<WideT, StrT>>) /\ NestedP!IsSeq(<<WideT>>)
      /\ NestedP!IsSeq(<<ByteT, WideT, StrT>>)
  <2>1. <<WideT, StrT>> = [i \in 1..2 |-> <<WideT, StrT>>[i]]
    OBVIOUS
  <2>2. <<WideT>> = [i \in 1..1 |-> <<WideT>>[i]]
    OBVIOUS
  <2>3. <<ByteT, WideT, StrT>> = [i \in 1..3 |-> <<ByteT, WideT, StrT>>[i]]
    OBVIOUS
  <2> QED
    BY <1>4, <2>1, <2>2, <2>3
<1>6. Flat(Codec!NifTuple(<<WideT, StrT>>))
  BY <1>1, <1>5 DEF Flat, Codec!NifTuple, NestedP!NifTuple, IsType, NestedP!IsType, HasFields,
       NestedP!HasFields, Subtypes, NestedP!Subtypes
<1>7. IsTag(TagAtom)
  BY NamesAre DEF TagAtom
<1>8. Flat(Codec!NifRecord(TagAtom, <<WideT>>))
  BY <1>1, <1>5, <1>7 DEF Flat, Codec!NifRecord, NestedP!NifRecord, IsType, NestedP!IsType,
       HasFields, NestedP!HasFields, Subtypes, NestedP!Subtypes, IsTag
<1>9. Flat(Codec!NifMap(TwoFields(ByteT, BoolT)))
  BY <1>1 DEF Flat, Codec!NifMap, NestedP!NifMap, IsType, NestedP!IsType, HasFields,
       NestedP!HasFields, Subtypes, NestedP!Subtypes, TwoFields
<1>10. Flat(Codec!NifStruct(TagAtom, [k \in {FieldA} |-> ByteT]))
  <2>1. NestedP!StructKey \notin DOMAIN [k \in {FieldA} |-> ByteT]
    BY DEF FieldA, Atom, NestedP!StructKey, NestedP!Atom
  <2> QED
    BY <1>1, <1>7, <2>1 DEF Flat, Codec!NifStruct, NestedP!NifStruct, IsType, NestedP!IsType,
         HasFields, NestedP!HasFields, Subtypes, NestedP!Subtypes, IsTag
<1>11. Flat(Codec!NifUntaggedEnum(<<ByteT, WideT, StrT>>))
  BY <1>1, <1>5 DEF Flat, Codec!NifUntaggedEnum, NestedP!NifUntaggedEnum, IsType,
       NestedP!IsType, HasFields, NestedP!HasFields, Subtypes, NestedP!Subtypes
<1> QED
  BY <1>2, <1>3, <1>6, <1>8, <1>9, <1>10, <1>11 DEF FlatTypes

\* The types of the behaviours are of the three levels.
LEMMA TypesAreDeep ==
  \A y \in CodecTypes : Deep(y)
<1>1. \A y \in LeafTypes \cup FlatTypes : Flat(y) /\ Deep(y)
  BY SimpleTypes, FlatTypesAreFlat, SimpleIsFlat, FlatIsDeep
<1>2. Flat(VecT(ByteT)) /\ Flat(OptionT(WideT)) /\ Flat(OptionT(BoolT)) /\ Flat(StrT)
  <2>1. Flat(VecT(ByteT)) /\ Flat(OptionT(WideT)) /\ Flat(OptionT(BoolT))
    <3>1. VecT(ByteT) \in FlatTypes /\ OptionT(WideT) \in FlatTypes /\ OptionT(BoolT) \in FlatTypes
      BY DEF FlatTypes
    <3> QED
      BY <3>1, FlatTypesAreFlat
  <2>2. Flat(StrT)
    BY <1>1 DEF LeafTypes
  <2> QED
    BY <2>1, <2>2
<1>3. Deep(OptionT(VecT(ByteT)))
  BY <1>2 DEF Deep, OptionT, VecT, IsType, NestedP!IsType, HasFields, NestedP!HasFields,
              Subtypes, NestedP!Subtypes
<1>4. Deep(VecT(OptionT(WideT)))
  BY <1>2 DEF Deep, OptionT, VecT, IsType, NestedP!IsType, HasFields, NestedP!HasFields,
              Subtypes, NestedP!Subtypes
<1>5. Deep(Nested!NifTuple(<<OptionT(BoolT), StrT>>))
  <2> DEFINE s == <<OptionT(BoolT), StrT>>
  <2>1. s = [i \in 1..2 |-> s[i]]
    OBVIOUS
  <2>2. DOMAIN s = 1..2 /\ s[1] = OptionT(BoolT) /\ s[2] = StrT
    OBVIOUS
  <2> HIDE DEF s
  <2>3. NestedP!IsSeq(s)
    BY <2>1, NestedP!SeqOf, NifTermsAssumption
  <2>4. \A k \in DOMAIN s : Flat(s[k]) /\ s[k][1] # "name"
    BY <1>2, <2>2 DEF OptionT, StrT
  <2>5. IsType(Nested!NifTuple(s))
    BY <2>3 DEF Nested!NifTuple, NestedP!NifTuple, IsType, NestedP!IsType
  <2>6. Nested!NifTuple(s)[1] = "tuple" /\ Nested!NifTuple(s)[2] = s
    BY DEF Nested!NifTuple
  <2>7. HasFields(Nested!NifTuple(s)) /\ Subtypes(Nested!NifTuple(s)) = {s[k] : k \in DOMAIN s}
    BY <2>6 DEF HasFields, NestedP!HasFields, Subtypes, NestedP!Subtypes
  <2>8. Deep(Nested!NifTuple(s))
    BY <2>4, <2>5, <2>7 DEF Deep
  <2> QED
    BY <2>8 DEF s
<1> QED
  BY <1>1, <1>3, <1>4, <1>5 DEF CodecTypes, NestedTypes

\* Tuples, lists and maps of terms of depth 0 are of depth 1.
LEMMA TupleDepth ==
  ASSUME NEW n \in Nat, NEW s, s = [i \in 1..n |-> s[i]], \A i \in 1..n : Depth0(s[i])
  PROVE  Depth1(Tuple(s))
<1>1. NestedP!IsSeq(s) /\ DOMAIN s = 1..n
  BY NestedP!SeqOf, NifTermsAssumption
<1>2. Tuple(s)[1] = "tuple" /\ Tuple(s)[2] = s /\ Tuple(s) = NestedP!Tuple(s)
  BY DEF Tuple, NestedP!Tuple
<1>3. IsTerm(Tuple(s))
  BY <1>1, <1>2 DEF IsTerm, NestedP!IsTerm
<1>4. Elements(Tuple(s)) = {s[i] : i \in 1..n}
  BY <1>1, <1>2 DEF Elements, NestedP!Elements
<1> QED
  BY <1>3, <1>4 DEF Depth1

LEMMA ListDepth ==
  ASSUME NEW n \in Nat, NEW s, s = [i \in 1..n |-> s[i]], \A i \in 1..n : Depth0(s[i]), NEW e
  PROVE  Depth1(List(s, e)) /\ (n = 0 => Depth0(List(s, e)))
<1>1. NestedP!IsSeq(s) /\ DOMAIN s = 1..n
  BY NestedP!SeqOf, NifTermsAssumption
<1>2. List(s, e)[1] = "list" /\ List(s, e)[2] = s /\ List(s, e) = NestedP!List(s, e)
  BY DEF List, NestedP!List
<1>3. IsTerm(List(s, e))
  BY <1>1, <1>2 DEF IsTerm, NestedP!IsTerm
<1>4. Elements(List(s, e)) = {s[i] : i \in 1..n}
  BY <1>1, <1>2 DEF Elements, NestedP!Elements
<1>5. n = 0 => Elements(List(s, e)) = {}
  BY <1>4
<1> QED
  BY <1>3, <1>4, <1>5 DEF Depth0, Depth1

LEMMA MapDepth ==
  ASSUME NEW m, m = [k \in DOMAIN m |-> m[k]], \A k \in DOMAIN m : Depth0(m[k])
  PROVE  Depth1(Map(m))
<1>1. Map(m)[1] = "map" /\ Map(m)[2] = m /\ Map(m) = NestedP!Map(m)
  BY DEF Map, NestedP!Map
<1>2. IsTerm(Map(m))
  BY <1>1 DEF IsTerm, NestedP!IsTerm, NestedP!IsMap
<1>3. Elements(Map(m)) = {m[k] : k \in DOMAIN m}
  BY <1>1 DEF Elements, NestedP!Elements
<1> QED
  BY <1>2, <1>3 DEF Depth1

\* Numbers, binaries, atoms and the empty list have no elements.
LEMMA LeavesDepth ==
  \A x \in Leaves : Depth0(x)
<1>1. ASSUME NEW n PROVE Depth0(Num(n)) /\ Depth0(Bin(n))
  <2>1. Num(n) = NestedP!Num(n) /\ Bin(n) = NestedP!Bin(n) /\ Num(n)[1] = "num" /\ Bin(n)[1] = "bin"
    BY DEF Num, Bin, NestedP!Num, NestedP!Bin
  <2>2. IsTerm(Num(n)) /\ IsTerm(Bin(n))
    BY <2>1 DEF IsTerm, NestedP!IsTerm
  <2>3. Elements(Num(n)) = {} /\ Elements(Bin(n)) = {}
    BY <2>1 DEF Elements, NestedP!Elements
  <2> QED
    BY <2>2, <2>3 DEF Depth0
<1>2. Depth0(EmptyList)
  <2>1. <<>> = [i \in 1..0 |-> <<>>[i]] /\ \A i \in 1..0 : Depth0(<<>>[i])
    OBVIOUS
  <2> QED
    BY <2>1, ListDepth DEF EmptyList
<1>3. \A a \in {TagAtom, WideAtom, NilAtom, True, False, OkAtom, ErrAtom} : Depth0(a)
  BY NamesAre, TagDepth DEF TagAtom, WideAtom, NilAtom, True, False, OkAtom, ErrAtom
<1> QED
  BY <1>1, <1>2, <1>3 DEF Leaves

\* The arbitrary terms are no deeper than the types.
LEMMA TermsDepth ==
  \A t \in Terms : Depth3(t)
<1>1. \A x \in Leaves : Depth0(x) /\ Depth1(x)
  BY LeavesDepth, DepthsGrow
<1>2. TagAtom \in Leaves /\ NilAtom \in Leaves /\ Num(0) \in Leaves
  BY NifTermsAssumption DEF Leaves
<1>3. ASSUME NEW h \in Leaves PROVE Depth1(Tuple(<<h>>)) /\ \A e : Depth1(List(<<h>>, e))
  <2>1. <<h>> = [i \in 1..1 |-> <<h>>[i]] /\ \A i \in 1..1 : Depth0(<<h>>[i])
    BY <1>1
  <2> QED
    BY <2>1, TupleDepth, ListDepth
<1>4. ASSUME NEW h \in Leaves, NEW t \in Leaves
      PROVE  Depth1(Tuple(<<h, t>>)) /\ \A e : Depth1(List(<<h, t>>, e))
  <2>1. <<h, t>> = [i \in 1..2 |-> <<h, t>>[i]] /\ \A i \in 1..2 : Depth0(<<h, t>>[i])
    BY <1>1
  <2> QED
    BY <2>1, TupleDepth, ListDepth
<1>5. ASSUME NEW h \in Leaves PROVE Depth1(Tuple(<<TagAtom, Num(0), h>>))
  <2> DEFINE s == <<TagAtom, Num(0), h>>
  <2>1. s = [i \in 1..3 |-> s[i]] /\ s[1] = TagAtom /\ s[2] = Num(0) /\ s[3] = h
    OBVIOUS
  <2> HIDE DEF s
  <2>2. \A i \in 1..3 : Depth0(s[i])
    BY <1>1, <1>2, <2>1
  <2>3. Depth1(Tuple(s))
    BY <2>1, <2>2, TupleDepth
  <2> QED
    BY <2>3 DEF s
<1>6. ASSUME NEW ks, NEW h \in Leaves, NEW t \in Leaves
      PROVE  Depth1(Map([k \in ks \cup {FieldA} |-> IF k = FieldA THEN t ELSE h]))
  <2> DEFINE m == [k \in ks \cup {FieldA} |-> IF k = FieldA THEN t ELSE h]
  <2>1. m = [k \in DOMAIN m |-> m[k]] /\ \A k \in DOMAIN m : Depth0(m[k])
    BY <1>1
  <2> HIDE DEF m
  <2>2. Depth1(Map(m))
    BY <2>1, MapDepth
  <2> QED
    BY <2>2 DEF m
<1>7. \A t \in Terms : Depth1(t)
  <2> SUFFICES ASSUME NEW t \in Terms PROVE Depth1(t)
    OBVIOUS
  <2> DEFINE Lists1 == {List(<<h>>, e) : h \in Leaves, e \in {End, TagAtom}}
             Lists2 == {List(<<h, Num(0)>>, e) : h \in Leaves, e \in {End, TagAtom}}
             Tuples1 == {Tuple(<<h>>) : h \in Leaves}
             Tuples2 == {Tuple(<<h, x>>) : h, x \in Leaves}
             Tuples3 == {Tuple(<<TagAtom, Num(0), h>>) : h \in Leaves}
             MapOf(ks, h, x) == Map([k \in ks \cup {FieldA} |-> IF k = FieldA THEN x ELSE h])
             Maps == {MapOf(ks, h, x) :
                        ks \in SUBSET {StructKey, FieldB}, h \in {TagAtom, NilAtom, Num(0)}, x \in Leaves}
  <2>1. CASE t \in Leaves
    BY <1>1, <2>1
  <2>2. CASE t \in Lists1
    <3>1. PICK h \in Leaves, e \in {End, TagAtom} : t = List(<<h>>, e)
      BY <2>2
    <3>2. Depth1(List(<<h>>, e))
      BY <1>3
    <3> QED
      BY <3>1, <3>2
  <2>3. CASE t \in Lists2
    <3>1. PICK h \in Leaves, e \in {End, TagAtom} : t = List(<<h, Num(0)>>, e)
      BY <2>3
    <3>2. Depth1(List(<<h, Num(0)>>, e))
      BY <1>2, <1>4
    <3> QED
      BY <3>1, <3>2
  <2>4. CASE t \in Tuples1
    BY <1>3, <2>4
  <2>5. CASE t \in Tuples2
    <3>1. PICK h \in Leaves, x \in Leaves : t = Tuple(<<h, x>>)
      BY <2>5
    <3>2. Depth1(Tuple(<<h, x>>))
      BY <1>4
    <3> QED
      BY <3>1, <3>2
  <2>6. CASE t \in Tuples3
    BY <1>5, <2>6
  <2>7. CASE t \in Maps
    <3>1. PICK ks \in SUBSET {StructKey, FieldB}, h \in {TagAtom, NilAtom, Num(0)}, x \in Leaves :
                 t = MapOf(ks, h, x)
      <4> HIDE DEF MapOf
      <4> QED
        BY <2>7
    <3>2. Depth1(MapOf(ks, h, x))
      <4>1. h \in Leaves
        BY <1>2
      <4> QED
        BY <4>1, <1>6
    <3> QED
      BY <3>1, <3>2
  <2>8. Terms = Leaves \cup Lists1 \cup Lists2 \cup Tuples1 \cup Tuples2 \cup Tuples3 \cup Maps
    BY DEF Terms
  <2> HIDE DEF Lists1, Lists2, Tuples1, Tuples2, Tuples3, Maps
  <2> QED
    BY <2>1, <2>2, <2>3, <2>4, <2>5, <2>6, <2>7, <2>8
<1> QED
  BY <1>7, DepthsGrow

-----------------------------------------------------------------------------
(* The behaviours *)

\* What is on the wire is a term that the encoder made of the value, or any term;
\* decode returned what it makes of it, or encode panicked.
WireInv ==
  /\ type \in CodecTypes
  /\ stage = "start" => value = None
  /\ stage # "start" =>
       \/ value = None /\ Depth3(wire)
       \/ \E v \in Nested!ValuesOf(type) :
            /\ value = Some(v)
            /\ \/ ~Nested!NoAtom(type, v) /\ wire = Nested!Encode(type, v)
               \/ Nested!NoAtom(type, v) /\ stage = "received" /\ got = Panics
  /\ stage = "received" =>
       \/ got = Nested!Decode(type, wire)
       \/ got = Panics /\ value # None /\ Nested!NoAtom(type, value[2])
  /\ stage \in {"start", "sent", "received"}

\* A name that cannot be made is one that no atom has.
LEMMA RefusedNames ==
  ASSUME NEW y \in CodecTypes, NEW v \in Nested!ValuesOf(y)
  PROVE  (y = NameT /\ ~IsOk(FromStr(v[2]))) <=> Nested!NoAtom(y, v)
<1>1. y[1] = "name" <=> y = NameT
  <2>1. IsType(y)
    BY TypesAreDeep DEF Deep
  <2> QED
    BY <2>1 DEF NameT, IsType, NestedP!IsType, NestedP!NifUnitEnum, NestedP!NifTuple,
         NestedP!NifRecord, NestedP!NifMap, NestedP!NifStruct, NestedP!NifUntaggedEnum
<1>2. ASSUME y = NameT PROVE Len(v[2]) \in Nat
  <2> DEFINE S == UNION {[1..n -> Chars] : n \in 1..(MaxName + 1)}
  <2>1. Nested!ValuesOf(y) = {<<"name", s>> : s \in S}
    BY <1>2 DEF Nested!ValuesOf, NameT, Chars, Nested!Chars
  <2>2. PICK s \in S : v = <<"name", s>>
    <3> HIDE DEF S
    <3> QED
      BY <2>1
  <2>3. PICK n \in 1..(MaxName + 1) : s \in [1..n -> Chars]
    BY <2>2
  <2> QED
    BY <2>2, <2>3, NifTermsAssumption
<1>3. IsOk(FromStr(v[2])) <=> ~((\E i \in DOMAIN v[2] : v[2][i] = "wide") \/ Len(v[2]) > MaxName)
  BY DEF FromStr, IsOk, Ok, BadArg
<1> QED
  BY <1>1, <1>3 DEF Nested!NoAtom

\* The invariant of the behaviours: what is on the wire and what was returned.
LEMMA InitWire == TermInit => WireInv
BY DEF TermInit, WireInv, CodecTypes, LeafTypes

\* Every step keeps it.
LEMMA StepWire == WireInv /\ [TermNext]_termVars => WireInv'
<1> SUFFICES ASSUME WireInv, [TermNext]_termVars PROVE WireInv'
  OBVIOUS
<1>1. CASE Send
  <2>1. PICK y \in CodecTypes : \E v \in Nested!ValuesOf(y) :
          /\ type' = y /\ value' = Some(v)
          /\ IF y = NameT /\ ~IsOk(FromStr(v[2]))
             THEN got' = Panics /\ stage' = "received" /\ UNCHANGED wire
             ELSE wire' = Nested!Encode(y, v) /\ stage' = "sent" /\ UNCHANGED got
    BY <1>1 DEF Send
  <2>2. PICK v \in Nested!ValuesOf(y) :
          /\ type' = y /\ value' = Some(v)
          /\ IF y = NameT /\ ~IsOk(FromStr(v[2]))
             THEN got' = Panics /\ stage' = "received" /\ UNCHANGED wire
             ELSE wire' = Nested!Encode(y, v) /\ stage' = "sent" /\ UNCHANGED got
    BY <2>1
  <2>3. value' # None /\ value'[2] = v
    BY <2>2 DEF Some, None
  <2>4. CASE Nested!NoAtom(y, v)
    BY <2>2, <2>3, <2>4, RefusedNames DEF WireInv
  <2>5. CASE ~Nested!NoAtom(y, v)
    BY <2>2, <2>3, <2>5, RefusedNames DEF WireInv
  <2> QED
    BY <2>4, <2>5
<1>2. CASE Given
  BY <1>2, TermsDepth DEF Given, WireInv
<1>3. CASE Receive
  <2>1. /\ stage = "sent" /\ got' = Nested!Decode(type, wire) /\ stage' = "received"
        /\ type' = type /\ value' = value /\ wire' = wire
    BY <1>3 DEF Receive
  <2>2. \/ value = None /\ Depth3(wire)
        \/ \E v \in Nested!ValuesOf(type) :
             value = Some(v) /\ ~Nested!NoAtom(type, v) /\ wire = Nested!Encode(type, v)
    BY <2>1 DEF WireInv
  <2> QED
    BY <2>1, <2>2 DEF WireInv
<1>4. CASE UNCHANGED termVars
  BY <1>4 DEF termVars, WireInv
<1> QED
  BY <1>1, <1>2, <1>3, <1>4 DEF TermNext

\* It holds in every state.
LEMMA WireAlways == TermSpec => []WireInv
BY InitWire, StepWire, PTL DEF TermSpec

\* By the round trip of the outermost codec.
LEMMA WireRoundTrips == WireInv => RoundTrip
<1> SUFFICES ASSUME WireInv, stage = "received", value # None
             PROVE  \/ got = Ok(value[2])
                    \/ Nested!Ambiguous(type, value[2])
                    \/ got = Panics /\ Nested!NoAtom(type, value[2])
  BY DEF RoundTrip
<1>1. PICK v \in Nested!ValuesOf(type) :
        /\ value = Some(v)
        /\ \/ ~Nested!NoAtom(type, v) /\ wire = Nested!Encode(type, v)
           \/ Nested!NoAtom(type, v) /\ stage = "received" /\ got = Panics
  BY DEF WireInv
<1>2. value[2] = v
  BY <1>1 DEF Some
<1>3. CASE ~Nested!NoAtom(type, v) /\ ~Nested!Ambiguous(type, v)
  <2>1. got = Nested!Decode(type, Nested!Encode(type, v))
    BY <1>1, <1>2, <1>3 DEF WireInv
  <2>2. Deep(type)
    BY TypesAreDeep DEF WireInv
  <2> QED
    BY <1>2, <1>3, <2>1, <2>2, NestedRoundTrip
<1> QED
  BY <1>1, <1>2, <1>3

\* For any widths and lengths of names and lists: a value that one NIF encodes is
\* what the next one decodes, unless the term is that of another value as well or
\* the value is a name that no atom has.
THEOREM ValuesAreTransported == TermSpec => []RoundTrip
BY WireAlways, WireRoundTrips, PTL

\* By the exactness of the outermost codec, and by where it panics from.
LEMMA WireIsExact == WireInv => DecodeIsExact
<1> SUFFICES ASSUME WireInv, stage = "received" PROVE DecodeIsExact
  BY DEF DecodeIsExact
<1>1. Deep(type)
  BY TypesAreDeep DEF WireInv
<1>2. CASE value # None /\ got = Panics
  BY <1>2 DEF DecodeIsExact, IsOk, Panics
<1>3. CASE ~(value # None /\ got = Panics)
  <2>1. got = Nested!Decode(type, wire)
    BY <1>3 DEF WireInv
  <2>2. Depth3(wire)
    <3>1. CASE value = None /\ Depth3(wire)
      BY <3>1
    <3>2. CASE ~(value = None /\ Depth3(wire))
      <4>1. PICK v \in Nested!ValuesOf(type) :
              /\ value = Some(v)
              /\ \/ ~Nested!NoAtom(type, v) /\ wire = Nested!Encode(type, v)
                 \/ Nested!NoAtom(type, v) /\ stage = "received" /\ got = Panics
        BY <3>2 DEF WireInv
      <4>2. value # None
        BY <4>1 DEF Some, None
      <4>3. ~Nested!NoAtom(type, v) /\ wire = Nested!Encode(type, v)
        BY <1>3, <4>1, <4>2
      <4> QED
        BY <1>1, <4>3, NestedEncodes
    <3> QED
      BY <3>1, <3>2
  <2>3. IsOk(got) => Nested!Encode(type, got[2]) = wire \/ Nested!Lossy(type, wire)
    BY <1>1, <2>1, <2>2, NestedExact
  <2>4. got = Panics =>
          \/ type[1] = "vec" /\ Improper(wire)
          \/ \E p \in Nested!Parts(type, wire) : p[1][1] = "vec" /\ Improper(p[2])
    <3> SUFFICES ASSUME got = Panics
                 PROVE  \/ type[1] = "vec" /\ Improper(wire)
                        \/ \E p \in Nested!Parts(type, wire) : p[1][1] = "vec" /\ Improper(p[2])
      OBVIOUS
    <3>1. \/ type[1] = "vec" /\ Improper(wire)
          \/ \E p \in Nested!Parts(type, wire) : Flat(p[1]) /\ Depth3(p[2])
               /\ (p[2] = wire \/ p[2] \in Elements(wire)) /\ Codec!Decode(p[1], p[2]) = Panics
      <4>1. Nested!Decode(type, wire) = Panics
        BY <2>1
      <4> HIDE DEF Deep, Depth3
      <4> QED
        BY ONLY <1>1, <2>2, <4>1, NestedPanicsFrom
    <3>2. CASE \E p \in Nested!Parts(type, wire) : Flat(p[1]) /\ Depth3(p[2]) /\ Codec!Decode(p[1], p[2]) = Panics
      <4>1. PICK p \in Nested!Parts(type, wire) : Flat(p[1]) /\ Depth3(p[2]) /\ Codec!Decode(p[1], p[2]) = Panics
        BY <3>2
      <4>2. p[1][1] = "vec" /\ Improper(p[2])
        BY <4>1, CodecPanics DEF Improper
      <4> QED
        BY <4>1, <4>2
    <3> QED
      BY <3>1, <3>2
  <2> QED
    BY <2>3, <2>4 DEF DecodeIsExact
<1> QED
  BY <1>2, <1>3

\* For any widths and lengths of names and lists: what decode accepts is the term
\* that its result is encoded to, but for what Lossy names, and only a list that
\* does not end in [] makes it panic.
THEOREM DecodeTakesNothingElse == TermSpec => []DecodeIsExact
BY WireAlways, WireIsExact, PTL
=============================================================================
