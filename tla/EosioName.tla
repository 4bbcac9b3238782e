----------------------------- MODULE EosioName -----------------------------
(***************************************************************************)
(* EOSIO names: the 64-bit value that names an account, an action or a     *)
(* permission on the chain, and its string form.  KeyManager.cpp converts  *)
(* the strings the GUI puts into a transaction (struct name, used by       *)
(* permission_level and action); EosioName.hpp decodes the keys of journal *)
(* entries for tables whose rows are identified by names                   *)
(* (AbstractTable::processJournal).                                        *)
(*                                                                         *)
(* TLC's integers are 32 bits wide, so a uint64 is kept as its 64 bits,    *)
(* bit b weighing 2^b; the code's shifts and masks are applied to them as  *)
(* the code writes them.  A string is a sequence of one-character strings; *)
(* Nul stands for the terminating NUL of a C string (and the null QChar    *)
(* that QString yields at its end).                                        *)
(***************************************************************************)
EXTENDS Integers, Sequences, Bitwise

LOCAL INSTANCE SequencesExt

Digits  == <<"1", "2", "3", "4", "5">>
Letters == <<"a", "b", "c", "d", "e", "f", "g", "h", "i", "j", "k", "l", "m",
             "n", "o", "p", "q", "r", "s", "t", "u", "v", "w", "x", "y", "z">>
Nul == ""

\* The charmap of to_string: symbol k is printed as Charmap[k + 1].
Charmap == <<".">> \o Digits \o Letters

CharAt(str, k) == IF k <= Len(str) THEN str[k] ELSE Nul

Bits == 0..63
ZeroWord == [b \in Bits |-> 0]

\* w | (v << sh), for a symbol v < 32.
OrShifted(w, v, sh) ==
    [b \in Bits |-> IF b \in sh..sh + 4 /\ (v \div 2^(b - sh)) % 2 = 1
                    THEN 1 ELSE w[b]]

\* The five low bits of w >> s, as a number.
RECURSIVE LowBits(_, _, _)
LowBits(w, s, width) ==
    IF width = 0 \/ s > 63 THEN 0
    ELSE w[s] + 2 * LowBits(w, s + 1, width - 1)

char_to_symbol(c) ==
    CASE c \in ToSet(Letters) -> SelectInSeq(Letters, LAMBDA x : x = c) + 5
      [] c \in ToSet(Digits)  -> SelectInSeq(Digits, LAMBDA x : x = c)
      [] OTHER                -> 0

\* The loop of string_to_uint64_t from position i, then the 13th character.
RECURSIVE PackSymbols(_, _, _)
PackSymbols(str, i, n) ==
    IF CharAt(str, i + 1) # Nul /\ i < 12
    THEN PackSymbols(str, i + 1,
                     OrShifted(n, char_to_symbol(str[i + 1]) & 31, 64 - 5 * (i + 1)))
    ELSE IF i = 12 THEN OrShifted(n, char_to_symbol(CharAt(str, 13)) & 15, 0)
    ELSE n

string_to_uint64_t(str) == PackSymbols(str, 0, ZeroWord)

\* name::set through name(std::string): a string longer than 13 characters
\* is refused and the value keeps its default, 0.
set(str) == IF Len(str) > 13 THEN ZeroWord ELSE string_to_uint64_t(str)

\* Mutant of Mask: every step masks with 0x1f.
MaskWide(i) == 31

\* to_string's loop: step i masks tmp with 0x0f (i = 0) or 0x1f, writes the
\* character at position 13 - i, and shifts tmp right by 4 or 5.
Mask(i) == IF i = 0 THEN 15 ELSE 31
StepShift(i) == IF i = 0 THEN 4 ELSE 5
RECURSIVE ShiftBefore(_)
ShiftBefore(i) == IF i = 0 THEN 0 ELSE ShiftBefore(i - 1) + StepShift(i - 1)

name_to_string(n) ==
    LET str == [k \in 1..13 |->
                   Charmap[(LowBits(n, ShiftBefore(13 - k), 5) & Mask(13 - k)) + 1]]
        last == SelectLastInSeq(str, LAMBDA c : c # ".")
    IN  SubSeq(str, 1, last)

(* ---------------------------------------------------------------------- *)
(* Authorizations: MutableTransaction::addAction writes "actor@permission" *)
(* (Strings::AuthorizationTemplate); permission_level parses it for       *)
(* signing; decodeAction prints it back.                                   *)
(* ---------------------------------------------------------------------- *)
AuthorizationTemplate(actor, permission) == actor \o <<"@">> \o permission
Active == <<"a", "c", "t", "i", "v", "e">>

\* Mutant of permission_level: the permission taken from the '@' on.
permission_levelFromAt(p) ==
    LET at == SelectInSeq(p, LAMBDA c : c = "@")
    IN  IF at = 0 THEN [actor |-> ZeroWord, permission |-> ZeroWord]
        ELSE [actor |-> set(SubSeq(p, 1, at - 1)),
              permission |-> set(SubSeq(p, at, Len(p)))]

\* permission_level(QString): split at the first '@' (left, mid); without
\* one, both names keep their default, 0.
permission_level(p) ==
    LET at == SelectInSeq(p, LAMBDA c : c = "@")
    IN  IF at = 0 THEN [actor |-> ZeroWord, permission |-> ZeroWord]
        ELSE [actor |-> set(SubSeq(p, 1, at - 1)),
              permission |-> set(SubSeq(p, at + 1, Len(p)))]

\* decodeAction: each permission_level printed as actor@permission.
DecodeAuthorization(pl) ==
    AuthorizationTemplate(name_to_string(pl.actor), name_to_string(pl.permission))

-----------------------------------------------------------------------------
(***************************************************************************)
(* Reference: the strings that are EOSIO names.  At most 13 characters     *)
(* from the charmap, the 13th only from its first 16 (". 1-5 a-j", the     *)
(* four bits the comment of string_to_uint64_t leaves it), and no trailing *)
(* dot.                                                                    *)
(***************************************************************************)
IsValidName(str) ==
    /\ Len(str) <= 13
    /\ \A k \in 1..Len(str) : str[k] \in ToSet(Charmap)
    /\ Len(str) = 13 => str[13] \in ToSet(SubSeq(Charmap, 1, 16))
    /\ Len(str) > 0 => str[Len(str)] # "."

\* A string the GUI passes in: any sequence of up to MaxLen characters of
\* Alphabet.
NameInputs(Alphabet, MaxLen) == SeqOf(Alphabet, MaxLen)

=============================================================================
