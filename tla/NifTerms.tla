------------------------------ MODULE NifTerms ------------------------------
(***************************************************************************)
(* Erlang terms as the NIF library (rustler) sees them, what its decoders   *)
(* return, and the conversions that have no components.                     *)
(*                                                                          *)
(* Terms and values are tagged tuples.  A binary is <<"bin", b>>, where b   *)
(* says whether it is UTF-8; a list is its elements and the term behind the *)
(* last one; a name is a sequence of kinds of characters.                   *)
(***************************************************************************)
EXTENDS Integers, Sequences

CONSTANTS
  Wide,      \* 2^32: numbers that enif_get_uint can return
  Byte,      \* 2^8: numbers of the cast type
  MaxName    \* 255: bytes of an atom

ASSUME NifTermsAssumption ==
  /\ Byte \in Nat \ {0} /\ Wide \in Nat /\ Byte < Wide
  /\ MaxName \in Nat \ {0}

-----------------------------------------------------------------------------
Num(n)   == <<"num", n>>
Atom(a)  == <<"atom", a>>
Bin(b)   == <<"bin", b>>
Tuple(s) == <<"tuple", s>>
Map(m)   == <<"map", m>>
End      == <<"end">>               \* [], behind the last element
List(s, rest) == <<"list", s, rest>>
EmptyList == List(<<>>, End)

IsAtom(t)  == t[1] = "atom"
IsTuple(t) == t[1] = "tuple"

Ok(v)   == <<"ok", v>>
BadArg  == <<"badarg">>
Invalid == <<"invalid">>  \* Error::Atom("invalid_...")
Panics  == <<"panics">>
IsOk(r) == r[1] = "ok"

\* Some(v) and None
Some(v) == <<"some", v>>
None == <<"none">>

NilAtom == Atom(<<"nil">>)
False   == Atom(<<"false">>)
True    == Atom(<<"true">>)
OkAtom  == Atom(<<"okay">>)
ErrAtom == Atom(<<"error">>)
StructKey == Atom(<<"__struct__">>)

-----------------------------------------------------------------------------
\* The kinds of characters of a name: one byte of UTF-8, one of Latin-1, more.
Chars == {"ascii", "latin", "wide"}

\* Mutant of FromStr: the length is that of the UTF-8 string.
FromStr_Utf8(s) ==
  IF (\E i \in DOMAIN s : s[i] = "wide")
     \/ Len(s) + Len(SelectSeq(s, LAMBDA c : c = "latin")) > MaxName
  THEN BadArg ELSE Ok(Atom(s))

\* Atom::from_str and from_bytes: the bytes are those of Latin-1.
FromStr(s) ==
  IF (\E i \in DOMAIN s : s[i] = "wide") \/ Len(s) > MaxName THEN BadArg ELSE Ok(Atom(s))

\* get_atom: Latin-1 is transcoded back, character by character; the VM gives no
\* length of an atom with other characters.
DecodeName(t) ==
  IF IsAtom(t) /\ ~(\E i \in DOMAIN t[2] : t[2][i] = "wide") THEN Ok(<<"name", t[2]>>)
  ELSE BadArg

EncodeNumber(n) == Num(n)

\* impl_number_transcoder!: the VM checks the width of its own type; the cast to
\* a narrower one checks nothing.
DecodeNumber(kind, t) ==
  IF t[1] # "num" \/ t[2] \notin 0..(Wide - 1) THEN BadArg
  ELSE Ok(<<"n", IF kind = "wide" THEN t[2] ELSE t[2] % Byte>>)

EncodeBool(b) == IF b THEN True ELSE False

\* is_truthy: any term is a bool.
DecodeBool(t) == Ok(<<"b", t \notin {False, NilAtom}>>)

EncodeStr(b) == Bin(b)

DecodeStr(t) == IF t = Bin("utf8") THEN Ok(<<"s", "utf8">>) ELSE BadArg

EncodeUnit(name) == name

\* NifUnitEnum
DecodeUnit(names, t) ==
  CASE ~IsAtom(t) -> BadArg
    [] IsAtom(t) /\ t \in names -> Ok(<<"unit", t>>)
    [] OTHER -> Invalid
=============================================================================
