------------------------------- MODULE Tokens --------------------------------
(***************************************************************************)
(* The tokenisers: Cmd_TokenizeString and its copy SV_Cmd_TokenizeString   *)
(* (src/update_main.c), and Com_ParseGetToken (src/qshared.c).             *)
(***************************************************************************)
EXTENDS Strings
LOCAL INSTANCE SequencesExt
LOCAL INSTANCE FiniteSetsExt

\* char is signed: bytes above 127 are below ' '.
White(c)    == c \in 1 .. Ch.space \cup 128 .. 255
Slashes(t, i)  == At(t, i) = Ch.slash /\ At(t, i + 1) = Ch.slash
Comment(t, i)  == At(t, i) = Ch.slash /\ At(t, i + 1) = Ch.star

FirstPlace(t, P(_)) == Min({i \in 1 .. Len(t) : P(i)} \cup {Len(t) + 1})

\* Where the next token starts: white space and comments are skipped.
RECURSIVE SkipToToken(_)
SkipToToken(text) ==
    LET t   == From(text, FirstPlace(text, LAMBDA i : ~White(text[i])))
        end == FirstPlace(t, LAMBDA i : t[i] = Ch.star /\ At(t, i + 1) = Ch.slash)
    IN  IF t = <<>> \/ Slashes(t, 1) THEN <<>>
        ELSE IF Comment(t, 1) THEN SkipToToken(From(t, end + 2)) ELSE t

\* (variant) A quote within a word taken for a part of it.
TokenEndAtSpace(t) == FirstPlace(t, LAMBDA i : White(t[i]))

TokenEnd(t) ==
    FirstPlace(t, LAMBDA i : White(t[i]) \/ t[i] = Ch.quote \/ Slashes(t, i) \/ Comment(t, i))

RECURSIVE Tokenize(_, _)
Tokenize(text, limit) ==
    LET t   == SkipToToken(text)
        q   == First(Tail(t), {Ch.quote})            \* the closing quote
        end == TokenEnd(t)
    IN  IF limit = 0 \/ t = <<>> THEN <<>>
        ELSE IF t[1] = Ch.quote
             THEN <<SubSeq(Tail(t), 1, q - 1)>> \o Tokenize(From(Tail(t), q + 1), limit - 1)
             ELSE <<SubSeq(t, 1, end - 1)>> \o Tokenize(From(t, end), limit - 1)

Cmd_TokenizeString(text, limit)    == Tokenize(text, limit)
SV_Cmd_TokenizeString(text, limit) == Tokenize(text, limit)
Cmd_Argc(args)      == Len(args)
Cmd_Argv(args, arg) == IF arg \in 0 .. Cmd_Argc(args) - 1 THEN args[arg + 1] ELSE <<>>
SV_Cmd_Argv(args, arg) == Cmd_Argv(args, arg)
----------------------------------------------------------------------------
(* Com_ParseGetToken: where the token after the one at p starts, with       *)
(* parse_inquotes; p = 0 for the first token and for "no more".             *)

LineEnd(c) == c \in {0, Ch.newline}
FromOn(text, p, P(_)) == Min({i \in p .. Len(text) + 1 : P(At(text, i)) \/ i = Len(text) + 1})

AfterQuoted(text, p) ==
    FromOn(text, p + 1, LAMBDA c : c \in {Ch.quote, Ch.semi} \/ LineEnd(c))
AfterToken(text, at) ==
    FromOn(text, IF at.inquotes THEN AfterQuoted(text, at.p) ELSE at.p,
           LAMBDA c : c = Ch.space \/ LineEnd(c))

NoToken == [p |-> 0, inquotes |-> FALSE]
Com_ParseGetToken(text, at) ==
    LET from  == IF at = NoToken THEN 1 ELSE AfterToken(text, at)
        start == FromOn(text, from, LAMBDA c : c \notin {Ch.space, Ch.semi})
        inq   == At(text, start) = Ch.quote
        p     == IF inq THEN start + 1 ELSE start
    IN  IF (at # NoToken /\ LineEnd(At(text, from))) \/ LineEnd(At(text, p)) THEN NoToken
        ELSE [p |-> p, inquotes |-> inq]

Com_ParseTokenLength(text, at) ==
    FromOn(text, at.p, LAMBDA c : c \in {IF at.inquotes THEN Ch.quote ELSE Ch.space, Ch.semi} \/ LineEnd(c))
      - at.p

RECURSIVE ParsedFrom(_, _)
ParsedFrom(text, at) ==
    LET next == Com_ParseGetToken(text, at)
    IN  IF next = NoToken THEN <<>>
        ELSE <<SubSeq(text, next.p, next.p + Com_ParseTokenLength(text, next) - 1)>>
               \o ParsedFrom(text, next)
Parsed(text) == ParsedFrom(text, NoToken)

\* Com_SkipTokens: past numTokens separators, or not at all.
Com_SkipCharset(s, sep) == From(s, FirstPlace(s, LAMBDA i : s[i] \notin sep))
RECURSIVE Skipped(_, _, _)
Skipped(s, n, sep) ==
    IF n = 0 THEN [found |-> TRUE, rest |-> s]
    ELSE IF At(s, 1) \in sep THEN Skipped(Com_SkipCharset(Tail(s), sep), n - 1, sep)
    ELSE IF Len(s) <= 1 THEN [found |-> FALSE, rest |-> s]
    ELSE Skipped(Tail(s), n, sep)
Com_SkipTokens(s, n, sep) == IF Skipped(s, n, sep).found THEN Skipped(s, n, sep).rest ELSE s
=============================================================================
