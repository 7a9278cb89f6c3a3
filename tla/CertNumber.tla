----------------------------- MODULE CertNumber -----------------------------
(***************************************************************************)
(* The number of an erasure certificate (internal/worker/worker.go), which *)
(* is also the name of its two stored objects: the day, the asset's tag,   *)
(* the end of the disk's serial and the attempt, joined by dashes.         *)
(* Characters are strings of length one; all numbers are of one day.       *)
(***************************************************************************)
EXTENDS Integers, Sequences, FiniteSets

CONSTANTS
    Characters,      \* of texts: those of tags and serials, digits, the dash
    Alphanumerics,   \* a-z, A-Z and 0-9 in the code
    FieldWidth,      \* 12 in the code
    SerialTail,      \* 8 in the code
    AttemptWidth,    \* 3 in the code: %03d pads, and grows beyond it
    Tags, Serials,   \* as registered
    Attempts

ASSUME WidthsAssumption == {FieldWidth, SerialTail, AttemptWidth} \subseteq Nat \ {0}
ASSUME AlphanumericsAssumption ==
    "X" \in Alphanumerics /\ "-" \notin Alphanumerics
ASSUME CharactersAssumption ==
    Alphanumerics \subseteq Characters /\ "-" \in Characters
      /\ {"0", "1", "2", "3", "4", "5", "6", "7", "8", "9"} \subseteq Characters
ASSUME LabelsAssumption == Tags \cup Serials \subseteq Seq(Characters) /\ Attempts \subseteq Nat

(* A bug: the dash is kept, as in the serials people write.                *)
Alphanumeric_Dash(c) == c \in Alphanumerics \cup {"-"}

Alphanumeric(c) == c \in Alphanumerics

(* The alphanumeric characters of s, in order.                             *)
Kept(s) ==
    LET at == {i \in 1..Len(s) : Alphanumeric(s[i])}
    IN  [k \in 1..Cardinality(at) |->
            s[CHOOSE i \in at : Cardinality({j \in at : j <= i}) = k]]

sanitize(s) ==
    IF Kept(s) = <<>> THEN <<"X">>
    ELSE SubSeq(Kept(s), 1, IF Len(Kept(s)) > FieldWidth THEN FieldWidth ELSE Len(Kept(s)))

shortSerial(s) == IF Len(s) > SerialTail THEN SubSeq(s, Len(s) - SerialTail + 1, Len(s)) ELSE s

Digits == <<"0", "1", "2", "3", "4", "5", "6", "7", "8", "9">>

PowerOfTen[k \in Nat] == IF k = 0 THEN 1 ELSE 10 * PowerOfTen[k - 1]

(* Decimal, with leading zeros up to the width.                            *)
Padded(n) ==
    LET length == CHOOSE l \in AttemptWidth..(AttemptWidth + n) :
                      n < PowerOfTen[l] /\ (l = AttemptWidth \/ n >= PowerOfTen[l - 1])
    IN  [i \in 1..length |-> Digits[((n \div (PowerOfTen[length - i])) % 10) + 1]]

certNumber(tag, serial, attempt) ==
    sanitize(tag) \o <<"-">> \o sanitize(shortSerial(serial)) \o <<"-">> \o Padded(attempt + 1)
-----------------------------------------------------------------------------
VARIABLE label       \* the asset, disk and job a certificate is issued for

Labels == [tag : Tags, serial : Serials, attempt : Attempts]
LabelInit == label \in Labels
LabelSpec == LabelInit /\ [][UNCHANGED label]_label

Number(l) == certNumber(l.tag, l.serial, l.attempt)

(* Two jobs of one day get the same certificate number, hence the same     *)
(* objects in the archive, only if tag, serial end and attempt look alike: *)
(* the joined text never shifts a character from one field to the next.    *)
NumberDeterminesFields ==
    \A other \in Labels :
        Number(label) = Number(other) =>
            /\ sanitize(label.tag) = sanitize(other.tag)
            /\ sanitize(shortSerial(label.serial)) = sanitize(shortSerial(other.serial))
            /\ label.attempt = other.attempt
=============================================================================
