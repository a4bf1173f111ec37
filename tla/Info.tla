------------------------------- MODULE Info -------------------------------
(***************************************************************************)
(* CoSimIO::Info (src/co_sim_io/impl/info.hpp): a map from text keys to    *)
(* values of type int, double, bool or string, changed by Set, Erase and  *)
(* Clear, and written to / read from a text stream by Save and Load (the  *)
(* stream is what ExportInfo/ImportInfo put in a file).                   *)
(*                                                                         *)
(* Keys and string values are sequences of characters, so that the        *)
(* whitespace-delimited extraction of operator>> is modelled as it        *)
(* behaves.  Doubles are non-negative whole numbers; operator<< writes    *)
(* them with the stream's default precision of Precision significant      *)
(* digits, which is what SigRound models (the exponent notation of %g is  *)
(* layout and is left out).  The names "InfoData_int", ... are written as *)
(* the single characters "I", "D", "B", "S".                              *)
(***************************************************************************)
EXTENDS Naturals, Sequences, SequencesExt

CONSTANTS
    Keys,           \* the keys the program sets (character sequences)
    IntValues,      \* non-negative ints it stores
    DoubleValues,   \* whole-number doubles it stores
    StringValues,   \* strings it stores (character sequences)
    Precision       \* std::ostream default precision (6)

Whitespace == {" ", "\n"}
DigitChar  == [d \in 0..9 |-> <<"0","1","2","3","4","5","6","7","8","9">>[d + 1]]
Types == {"int", "double", "bool", "string"}

(* The registered object names of Save/Load (lines 156-161, 175-180).    *)
TypeName == [t \in Types |-> CASE t = "int" -> "I" [] t = "double" -> "D"
                                [] t = "bool" -> "B" [] t = "string" -> "S"]

Entry ==
    [type : {"int"}, value : IntValues] \cup [type : {"double"}, value : DoubleValues]
    \cup [type : {"bool"}, value : BOOLEAN] \cup [type : {"string"}, value : StringValues]

VARIABLE info

-----------------------------------------------------------------------------
(* Reads                                                                   *)

(* Has (lines 120-123) and Size (lines 149-152).                         *)
Has(i, k) == k \in DOMAIN i

Size(i) == Cardinality(DOMAIN i)

(* Get<T> (lines 111-118): an error for an absent key or for an entry    *)
(* whose type name differs from T's; otherwise the value.                 *)
Get(i, k, t) ==
    IF Has(i, k) /\ i[k].type = t
    THEN [ok |-> TRUE, val |-> i[k].value]
    ELSE [ok |-> FALSE]

-----------------------------------------------------------------------------
(* Number <-> text                                                         *)

RECURSIVE Digits(_)
Digits(n) == IF n < 10 THEN <<DigitChar[n]>> ELSE Digits(n \div 10) \o <<DigitChar[n % 10]>>

RECURSIVE Pow10(_)
Pow10(e) == IF e = 0 THEN 1 ELSE 10 * Pow10(e - 1)

(* n rounded (half up) to Precision significant digits.                  *)
SigRound(n) ==
    LET drop == Len(Digits(n)) - Precision
        unit == Pow10(drop)
    IN  IF drop <= 0 THEN n ELSE ((n + unit \div 2) \div unit) * unit

IsDigit(c) == \E d \in 0..9 : DigitChar[d] = c
DigitValue(c) == CHOOSE d \in 0..9 : DigitChar[d] = c

RECURSIVE NumberOf(_)
NumberOf(s) == IF s = <<>> THEN 0 ELSE 10 * NumberOf(Front(s)) + DigitValue(Last(s))

-----------------------------------------------------------------------------
(* Save (lines 154-172): the size, then key, type name and value of each  *)
(* entry in std::map order, each followed by a newline.                   *)

CharRank(c) == CASE c = " " -> 0 [] c = "a" -> 1 [] c = "b" -> 2 [] OTHER -> 3

RECURSIVE KeyLess(_, _)
KeyLess(k1, k2) ==
    \/ k1 = <<>> /\ k2 # <<>>
    \/ /\ k1 # <<>> /\ k2 # <<>>
       /\ \/ CharRank(Head(k1)) < CharRank(Head(k2))
          \/ Head(k1) = Head(k2) /\ KeyLess(Tail(k1), Tail(k2))

(* InfoData<T>::Save: operator<< of the value (lines 84-87).             *)
ValueText(e) ==
    CASE e.type = "int"    -> Digits(e.value)
      [] e.type = "double" -> Digits(SigRound(e.value))
      [] e.type = "bool"   -> IF e.value THEN <<"1">> ELSE <<"0">>
      [] e.type = "string" -> e.value

(* Mutation: the newline after the value (line 170) left out.            *)
EntryTextNoNewline(k, e) == k \o <<"\n", TypeName[e.type], "\n">> \o ValueText(e)

EntryText(k, e) == k \o <<"\n", TypeName[e.type], "\n">> \o ValueText(e) \o <<"\n">>

Save(i) ==
    LET ks == SetToSortSeq(DOMAIN i, KeyLess)
    IN  Digits(Size(i)) \o <<"\n">>
            \o FlattenSeq([n \in 1..Len(ks) |-> EntryText(ks[n], i[ks[n]])])

-----------------------------------------------------------------------------
(* Load (lines 173-197) reads the stream with operator>>.  A reader is    *)
(* the unread text and the stream's failbit; once failed, every further   *)
(* extraction does nothing.                                               *)

RECURSIVE SkipWs(_)
SkipWs(s) == IF s # <<>> /\ Head(s) \in Whitespace THEN SkipWs(Tail(s)) ELSE s

(* Length of the leading run of non-blank characters, and of digits.     *)
RECURSIVE WordLen(_)
WordLen(s) == IF s # <<>> /\ Head(s) \notin Whitespace THEN 1 + WordLen(Tail(s)) ELSE 0

RECURSIVE DigitsLen(_)
DigitsLen(s) == IF s # <<>> /\ IsDigit(Head(s)) THEN 1 + DigitsLen(Tail(s)) ELSE 0

(* operator>>(istream, string): skip whitespace, take the next word; at   *)
(* end of stream set failbit and leave the target as it was.              *)
ReadWord(rd, old) ==
    LET s == SkipWs(rd.rest)
        n == WordLen(s)
    IN  IF rd.fail \/ s = <<>>
        THEN [rd |-> [rest |-> s, fail |-> TRUE], val |-> old]
        ELSE [rd |-> [rest |-> SubSeq(s, n + 1, Len(s)), fail |-> FALSE],
              val |-> SubSeq(s, 1, n)]

(* Arithmetic operator>>: the longest run of digits; none sets failbit    *)
(* and stores 0 (C++11 num_get); a failed stream leaves the target.       *)
ReadNumber(rd, old) ==
    LET s == SkipWs(rd.rest)
        n == DigitsLen(s)
    IN  CASE rd.fail -> [rd |-> rd, val |-> old]
          [] n = 0   -> [rd |-> [rest |-> s, fail |-> TRUE], val |-> 0]
          [] OTHER   -> [rd |-> [rest |-> SubSeq(s, n + 1, Len(s)), fail |-> FALSE],
                         val |-> NumberOf(SubSeq(s, 1, n))]

(* InfoData<T>::Load (lines 88-91) into a clone holding T() (line 81).    *)
(* A bool is read as a number: 0 or 1, anything else sets failbit.        *)
ReadValue(rd, t) ==
    CASE t = "string" -> ReadWord(rd, <<>>)
      [] t = "bool"   -> LET r == ReadNumber(rd, 0)
                         IN  IF r.rd.fail \/ r.val \in {0, 1}
                             THEN [rd |-> r.rd, val |-> r.val = 1]
                             ELSE [rd |-> [r.rd EXCEPT !.fail = TRUE], val |-> TRUE]
      [] OTHER        -> ReadNumber(rd, 0)

NameType(c) == CHOOSE t \in Types : TypeName[t] = c

(* The loop of Load: key and registered_name keep their last value when  *)
(* an extraction fails; an unknown name is a fatal error (line 191).      *)
RECURSIVE LoadEntries(_, _, _, _, _)

(* Mutation: the clone stored under registered_name instead of key.      *)
LoadEntriesUnderName(rd, count, key, name, acc) ==
    IF count = 0 THEN [ok |-> TRUE, info |-> acc]
    ELSE LET k  == ReadWord(rd, key)
             nm == ReadWord(k.rd, name)
         IN  IF nm.val \notin {<<TypeName[t]>> : t \in Types}
             THEN [ok |-> FALSE, info |-> acc]
             ELSE LET t == NameType(nm.val[1])
                      v == ReadValue(nm.rd, t)
                  IN  LoadEntries(v.rd, count - 1, k.val, nm.val,
                                  (nm.val :> [type |-> t, value |-> v.val]) @@ acc)

(* Mutation: the entry inserted only if the key is new (std::map::insert *)
(* or emplace in place of operator[] at line 195).                        *)
LoadEntriesKeepingOld(rd, count, key, name, acc) ==
    IF count = 0 THEN [ok |-> TRUE, info |-> acc]
    ELSE LET k  == ReadWord(rd, key)
             nm == ReadWord(k.rd, name)
         IN  IF nm.val \notin {<<TypeName[t]>> : t \in Types}
             THEN [ok |-> FALSE, info |-> acc]
             ELSE LET t == NameType(nm.val[1])
                      v == ReadValue(nm.rd, t)
                  IN  LoadEntries(v.rd, count - 1, k.val, nm.val,
                                  acc @@ (k.val :> [type |-> t, value |-> v.val]))

LoadEntries(rd, count, key, name, acc) ==
    IF count = 0 THEN [ok |-> TRUE, info |-> acc]
    ELSE LET k  == ReadWord(rd, key)
             nm == ReadWord(k.rd, name)
         IN  IF nm.val \notin {<<TypeName[t]>> : t \in Types}
             THEN [ok |-> FALSE, info |-> acc]
             ELSE LET t == NameType(nm.val[1])
                      v == ReadValue(nm.rd, t)
                  IN  LoadEntries(v.rd, count - 1, k.val, nm.val,
                                  (k.val :> [type |-> t, value |-> v.val]) @@ acc)

(* Info::Load (lines 173-197) on an Info i: the entries are added to the *)
(* map i already holds, which is not cleared; on an error the entries     *)
(* read so far stay.                                                       *)
LoadInto(i, text) ==
    LET size == ReadNumber([rest |-> text, fail |-> FALSE], 0)
    IN  LoadEntries(size.rd, size.val, <<>>, <<>>, i)

(* Load on a new, empty Info.                                              *)
Load(text) == LoadInto(<<>>, text)

-----------------------------------------------------------------------------
(* Operations                                                              *)

Init == info = <<>>

(* Set<T> (lines 125-137): insert or replace the entry of the key.       *)
(* Mutation: an existing holder is reused, so the entry keeps its type.  *)
SetKeepingType(k, t, v) ==
    info' = IF k \in DOMAIN info
            THEN [info EXCEPT ![k] = [type |-> @.type, value |-> v]]
            ELSE (k :> [type |-> t, value |-> v]) @@ info

(* mOptions[I_Key] = a new holder of type T: the Info i after the call. *)
Assign(i, k, t, v) == (k :> [type |-> t, value |-> v]) @@ i

Set(k, t, v) == info' = Assign(info, k, t, v)

(* Erase (lines 139-142): std::map::erase, a no-op for an absent key.    *)
Erased(i, k) == [x \in DOMAIN i \ {k} |-> i[x]]

Erase(k) == info' = Erased(info, k)

(* Clear (lines 144-147).                                                 *)
Clear == info' = <<>>

(* The Infos of one entry, whose text a partner may have saved.           *)
OneEntryInfos == {k :> e : k \in Keys, e \in Entry}

(* Load called on this Info with a text that Save wrote.                  *)
LoadStream(text) == info' = LoadInto(info, text).info

Next ==
    \/ \E e \in Entry, k \in Keys : Set(k, e.type, e.value)
    \/ \E j \in OneEntryInfos : LoadStream(Save(j))
    \/ \E k \in Keys : Erase(k)
    \/ Clear

Spec == Init /\ [][Next]_info

-----------------------------------------------------------------------------
(* Properties                                                              *)

TypeOK == DOMAIN info \subseteq Keys /\ \A k \in DOMAIN info : info[k] \in Entry

(* Round trip (spec 8, "Options Record round-trip"): every Info the      *)
(* program can build, written by Save and read back by Load, loads        *)
(* without error, and Get<T> of every key and type on the loaded Info     *)
(* gives what it gives on the original: the same value, or an error for   *)
(* an absent key or a mismatched type.                                    *)
RoundTrip ==
    LET r == Load(Save(info))
    IN  /\ r.ok
        /\ \A k \in Keys, t \in Types : Get(r.info, k, t) = Get(info, k, t)

(* Load on an Info that already holds entries (spec 4.3 says only that   *)
(* deserialization rebuilds the entries): for every Info the program can  *)
(* build and every saved Info j, loading j's text gives exactly the old   *)
(* entries overridden by j's, value and type, and keeps the old keys j    *)
(* does not contain.                                                       *)
LoadMerges ==
    \A j \in OneEntryInfos :
        LET r == LoadInto(info, Save(j))
        IN  r.ok /\ r.info = j @@ info

=============================================================================
