----------------------------- MODULE InfoStrings -----------------------------
(***************************************************************************)
(* Info strings of src/qshared.c: \key\value\key\value...  The functions   *)
(* come twice, for strings of MAX_INFO_STRING and of BIG_INFO_STRING       *)
(* bytes; size stands for the one or the other.                            *)
(***************************************************************************)
EXTENDS Strings
LOCAL INSTANCE SequencesExt
LOCAL INSTANCE FiniteSetsExt

\* The pairs from position i on, each with the piece of the text it takes.
RECURSIVE Entries(_, _)
Entries(s, i) ==
    LET Next(p)  == Min({j \in p .. Len(s) : s[j] = Ch.backslash} \cup {Len(s) + 1})
        keyFrom  == IF At(s, i) = Ch.backslash THEN i + 1 ELSE i
        keyEnd   == Next(keyFrom)
        valueEnd == Next(keyEnd + 1)
    IN  IF keyEnd > Len(s) THEN <<>>
        ELSE <<[key |-> SubSeq(s, keyFrom, keyEnd - 1), value |-> SubSeq(s, keyEnd + 1, valueEnd - 1),
                from |-> i, to |-> valueEnd]>> \o Entries(s, valueEnd)

\* Only the first match goes; keys are compared with their case.
Info_RemoveKey(s, key) ==
    LET M == {e \in ToSet(Entries(s, 1)) : e.key = key}
        e == CHOOSE f \in M : \A g \in M : f.from <= g.from
    IN  IF Has(key, Ch.backslash) \/ M = {} THEN s
        ELSE SubSeq(s, 1, e.from - 1) \o From(s, e.to)

\* Keys are compared without their case.
Info_ValueForKey(s, key) ==
    LET M == {e \in ToSet(Entries(s, 1)) : Q_stricmp(key, e.key) = 0}
    IN  IF M = {} THEN <<>> ELSE (CHOOSE f \in M : \A g \in M : f.from <= g.from).value

Info_Validate(s) == ~Has(s, Ch.quote) /\ ~Has(s, Ch.semi)
Settable(t)      == Info_Validate(t) /\ ~Has(t, Ch.backslash)

\* (variant) The value left in place, as with a removal that was forgotten.
SetValueTwice(s, key, value, size) ==
    LET pair == <<Ch.backslash>> \o key \o <<Ch.backslash>> \o value
    IN  IF value = <<>> \/ Len(pair) + Len(s) > size THEN s ELSE pair \o s

\* A value already there goes first, also when the new one then does not fit.
Info_SetValueForKey(s, key, value, size) ==
    LET rest == Info_RemoveKey(s, key)
        pair == Com_sprintf(<<Ch.backslash>> \o key \o <<Ch.backslash>> \o value, size)
    IN  IF ~Settable(key) \/ ~Settable(value) THEN s
        ELSE IF value = <<>> \/ Len(pair) + Len(rest) > size THEN rest ELSE pair \o rest

BigInfo_SetValueForKey(s, key, value, size) == Info_SetValueForKey(s, key, value, size)

\* FastInfo_SetValueForKey appends where it stopped the last time.
FastInfo_SetValueForKey(s, key, value, size) ==
    IF Len(key) + Len(value) + 2 + Len(s) >= size THEN s
    ELSE s \o <<Ch.backslash>> \o key \o <<Ch.backslash>> \o value
=============================================================================
