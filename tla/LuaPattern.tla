----------------------------- MODULE LuaPattern -----------------------------
(***************************************************************************)
(* The pattern matching of the string library (lstrlib.c): match, which    *)
(* goes back and forth over one mutable record of captures, and its users  *)
(* find, match, gmatch and gsub.                                           *)
(*                                                                         *)
(* A subject is a sequence of characters; a pattern is a sequence of items *)
(* as match meets them.  A character class is the set of its characters.   *)
(* Positions begin at 1.                                                   *)
(***************************************************************************)
EXTENDS Integers, Sequences, SequencesExt

CONSTANTS
    Subjects,         \* the strings to match
    Pieces,           \* the sequences of items that patterns are made of
    MaxPieces,        \* the pieces of a pattern
    LUA_MAXCAPTURES,  \* the captures of a pattern
    Replacements      \* the third arguments of gsub

VARIABLES
    subject,  \* src_init .. src_end
    pattern,  \* the items
    written,  \* the pieces written
    tried     \* the pattern is complete and is tried

patternVars == <<subject, pattern, written, tried>>

\* The items of a pattern.
Open == [op |-> "("]
Close == [op |-> ")", class |-> {")"}]
Back(k) == [op |-> "%1", index |-> k]
Balance(b, e) == [op |-> "%b", open |-> b, close |-> e]
Frontier(set) == [op |-> "%f", class |-> set]
Dollar == [op |-> "$", class |-> {"$"}, rep |-> ""]
Char(c) == [op |-> "char", class |-> {c}, rep |-> ""]
Repeat(set, rep) == [op |-> "class", class |-> set, rep |-> rep]
Malformed == [op |-> "malformed"]  \* a missing "]", a "%" at the end

\* What a match returns: the position after it, NULL, or an error.
NULL == 0
ERROR == -1
CAP_UNFINISHED == -1
CAP_POSITION == -2
ZeroChar == "\\0"  \* what is before the first and after the last character

src_end == Len(subject) + 1
CharAt(s) == IF s \in DOMAIN subject THEN subject[s] ELSE ZeroChar

\* ms: the number of captures and, for each level, where it begins and its
\* length; what is above the level is left from earlier attempts.
NewMatchState ==
    [level |-> 0, init |-> [l \in 1 .. LUA_MAXCAPTURES |-> 0],
     len |-> [l \in 1 .. LUA_MAXCAPTURES |-> 0]]

Result(at, ms) == [at |-> at, ms |-> ms]

\* The position after a balanced string.
matchbalance(s, b, e) ==
    LET depth[k \in s .. Len(subject)] ==
            IF k = s THEN 1
            ELSE depth[k - 1] + (IF subject[k] = e THEN -1 ELSE IF subject[k] = b THEN 1 ELSE 0)
        ends == {k \in s + 1 .. Len(subject) : depth[k] = 0}
    IN  IF CharAt(s) # b \/ ends = {} THEN NULL
        ELSE (CHOOSE k \in ends : \A m \in ends : k <= m) + 1

\* The end of the longest repetition of a class from s on.
MaxRun(s, class) ==
    CHOOSE k \in s .. src_end :
      /\ \A m \in s .. k - 1 : subject[m] \in class
      /\ k = src_end \/ subject[k] \notin class

\* check_capture and match_capture; the length of a position capture is
\* larger than any string when it is taken as a size_t.
match_capture(ms, s, l) ==
    IF l < 1 \/ l > ms.level THEN ERROR
    ELSE LET len == ms.len[l] IN
         IF len = CAP_UNFINISHED THEN ERROR
         ELSE IF len = CAP_POSITION \/ len > src_end - s THEN NULL
         ELSE IF \A k \in 0 .. len - 1 : subject[s + k] = subject[ms.init[l] + k] THEN s + len
         ELSE NULL

\* capture_to_close: the innermost open level, or 0.
capture_to_close(ms) ==
    LET unfinished == {l \in 1 .. ms.level : ms.len[l] = CAP_UNFINISHED}
    IN  IF unfinished = {} THEN 0 ELSE CHOOSE l \in unfinished : \A m \in unfinished : m <= l

RECURSIVE match(_, _, _)

\* Mutant: a failed match leaves the capture closed.
undo_none(res, l) == res

\* "undo capture", when the rest of the pattern does not match.
undo_close(res, l) ==
    IF res.at = NULL THEN [res EXCEPT !.ms.len[l] = CAP_UNFINISHED] ELSE res

start_capture(ms, s, p, what) ==
    LET l == ms.level + 1
        res == match([level |-> l, init |-> [ms.init EXCEPT ![l] = s],
                      len |-> [ms.len EXCEPT ![l] = what]], s, p)
    IN  IF ms.level >= LUA_MAXCAPTURES THEN Result(ERROR, ms)
        ELSE IF res.at = NULL THEN [res EXCEPT !.ms.level = @ - 1] ELSE res

end_capture(ms, s, p) ==
    LET l == capture_to_close(ms)
    IN  IF l = 0 THEN Result(ERROR, ms)
        ELSE undo_close(match([ms EXCEPT !.len[l] = s - ms.init[l]], s, p), l)

\* The repetitions up to the position "from", longest first.
RECURSIVE max_expand(_, _, _, _)
max_expand(ms, s, from, p) ==
    IF from < s THEN Result(NULL, ms)
    ELSE LET res == match(ms, from, p + 1)
         IN  IF res.at # NULL THEN res ELSE max_expand(res.ms, s, from - 1, p)

RECURSIVE min_expand(_, _, _)
min_expand(ms, s, p) ==
    LET res == match(ms, s, p + 1)
    IN  IF res.at # NULL THEN res
        ELSE IF s < src_end /\ CharAt(s) \in pattern[p].class THEN min_expand(res.ms, s + 1, p)
        ELSE res

\* The single-character items with their repetitions.
dflt(ms, s, p) ==
    LET item == pattern[p]
        m == s < src_end /\ CharAt(s) \in item.class
        longer == match(ms, s + 1, p + 1)
    IN  CASE item.rep = "?" ->
               IF m THEN IF longer.at # NULL THEN longer ELSE match(longer.ms, s, p + 1)
               ELSE match(ms, s, p + 1)
          [] item.rep = "*" -> max_expand(ms, s, MaxRun(s, item.class), p)
          [] item.rep = "+" -> IF m THEN max_expand(ms, s + 1, MaxRun(s, item.class), p)
                               ELSE Result(NULL, ms)
          [] item.rep = "-" -> min_expand(ms, s, p)
          [] OTHER -> IF m THEN longer ELSE Result(NULL, ms)

\* The rest of the pattern after an item that ends at "at".
continued(ms, at, p) == IF at \in {NULL, ERROR} THEN Result(at, ms) ELSE match(ms, at, p)

match(ms, s, p) ==
    IF p > Len(pattern) THEN Result(s, ms)
    ELSE LET item == pattern[p] IN
      CASE item.op = "(" ->
             IF p < Len(pattern) /\ pattern[p + 1] = Close
             THEN start_capture(ms, s, p + 2, CAP_POSITION)
             ELSE start_capture(ms, s, p + 1, CAP_UNFINISHED)
        [] item.op = ")" -> end_capture(ms, s, p + 1)
        [] item.op = "%b" -> continued(ms, matchbalance(s, item.open, item.close), p + 1)
        [] item.op = "%f" ->
             continued(ms, IF CharAt(s - 1) \in item.class \/ CharAt(s) \notin item.class
                       THEN NULL ELSE s, p + 1)
        [] item.op = "%1" -> continued(ms, match_capture(ms, s, item.index), p + 1)
        [] item.op = "$" /\ p = Len(pattern) -> Result(IF s = src_end THEN s ELSE NULL, ms)
        [] item.op = "malformed" -> Result(ERROR, ms)
        [] OTHER -> dflt(ms, s, p)

(***************************************************************************)
(* The users of match.                                                     *)
(***************************************************************************)
\* What is pushed for a capture.
Text(chars) == [text |-> chars]
Position(at) == [position |-> at]
InvalidCapture == [invalid |-> TRUE]
KeepsText == [keep |-> TRUE]  \* nil or false from a replacement

Between(from, to) == SubSeq(subject, from, to - 1)

push_onecapture(ms, l, s, e) ==
    IF l > ms.level THEN IF l = 1 THEN Text(Between(s, e)) ELSE InvalidCapture
    ELSE CASE ms.len[l] = CAP_UNFINISHED -> InvalidCapture
           [] ms.len[l] = CAP_POSITION -> Position(ms.init[l])
           [] OTHER -> Text(Between(ms.init[l], ms.init[l] + ms.len[l]))

\* The captures, or with none of them the whole match when it is asked for.
push_captures(ms, s, e, whole) ==
    [l \in 1 .. IF ms.level = 0 /\ whole THEN 1 ELSE ms.level |-> push_onecapture(ms, l, s, e)]

NotFound == [kind |-> "nil"]
ErrorResult == [kind |-> "error"]
Matched(s, e, captures) ==
    IF InvalidCapture \in ToSet(captures) THEN ErrorResult
    ELSE [kind |-> "match", from |-> s, to |-> e, captures |-> captures]

\* The loop of str_find_aux and gmatch_aux: the first match from s on.
RECURSIVE Search(_, _, _)
Search(s, anchor, whole) ==
    LET res == match(NewMatchState, s, 1)
    IN  IF s > src_end THEN NotFound
        ELSE CASE res.at = ERROR -> ErrorResult
               [] res.at = NULL -> IF anchor THEN NotFound ELSE Search(s + 1, anchor, whole)
               [] OTHER -> Matched(s, res.at, push_captures(res.ms, s, res.at, whole))

\* A plain search: memchr finds the next place of the first character.
RECURSIVE lmemfind(_)
lmemfind(s) ==
    LET first == {k \in s .. src_end - Len(pattern) : subject[k] \in pattern[1].class}
        init == CHOOSE k \in first : \A m \in first : k <= m
    IN  IF pattern = <<>> THEN s
        ELSE IF first = {} THEN NULL
        ELSE IF \A q \in 2 .. Len(pattern) : subject[init + q - 1] \in pattern[q].class THEN init
        ELSE lmemfind(init + 1)

posrelat(pos) == LET at == IF pos < 0 THEN pos + Len(subject) + 1 ELSE pos
                 IN  IF at >= 0 THEN at ELSE 0

\* No character of SPECIALS is in the pattern; ")" is not one of them.
NoSpecials == \A q \in DOMAIN pattern : pattern[q].op \in {"char", ")"}

\* string.find and string.match; the plain search serves a find without
\* special characters.
str_find_aux(find, pos, anchor) ==
    LET init == IF posrelat(pos) < 1 THEN 1
                ELSE IF posrelat(pos) > src_end THEN src_end ELSE posrelat(pos)
        at == lmemfind(init)
    IN  IF find /\ ~anchor /\ NoSpecials
        THEN IF at = NULL THEN NotFound ELSE Matched(at, at + Len(pattern), <<>>)
        ELSE Search(init, anchor, ~find)

\* Mutant: a character is skipped after every match.
newstart_skip(m) == m.to + 1

\* "empty match? go at least one position"
newstart(m) == IF m.to = m.from THEN m.to + 1 ELSE m.to

\* string.gmatch: the matches one after the other, up to an error.
RECURSIVE gmatch_aux(_)
gmatch_aux(src) ==
    LET m == Search(src, FALSE, TRUE)
    IN  CASE m.kind = "nil" -> <<>>
          [] m.kind = "error" -> <<m>>
          [] OTHER -> <<m>> \o gmatch_aux(newstart(m))

\* The third argument of gsub: a string of characters and digits after "%",
\* or a table or function by what it gives for the captures it is called with.
ReplaceBy(pieces) == [type |-> "string", pieces |-> pieces]
Gives(type, result) == [type |-> type, result |-> result]

\* A capture as luaL_addvalue adds it: a position by its digits.
Shown(capture) == IF "text" \in DOMAIN capture THEN capture.text ELSE <<ToString(capture.position)>>

\* add_s: %0 is the whole match.
add_s(ms, s, e, pieces) ==
    LET added(piece) ==
            IF "char" \in DOMAIN piece THEN Text(<<piece.char>>)
            ELSE IF piece.digit = 0 THEN Text(Between(s, e))
            ELSE push_onecapture(ms, piece.digit, s, e)
        all == [q \in DOMAIN pieces |-> added(pieces[q])]
    IN  IF InvalidCapture \in ToSet(all) THEN InvalidCapture
        ELSE Text(FlattenSeq([q \in DOMAIN all |-> Shown(all[q])]))

\* add_value: nil and false keep the text, other values must be strings.  A
\* function is called with all captures, a table is asked for the first.
add_value(ms, s, e, repl) ==
    CASE repl.type = "string" -> add_s(ms, s, e, repl.pieces)
      [] repl.type = "function" /\ InvalidCapture \in ToSet(push_captures(ms, s, e, TRUE)) ->
           InvalidCapture
      [] repl.type = "table" /\ push_onecapture(ms, 1, s, e) = InvalidCapture -> InvalidCapture
      [] OTHER -> IF repl.result = KeepsText THEN Text(Between(s, e)) ELSE repl.result

\* str_gsub with n substitutions made and b in the buffer.
RECURSIVE str_gsub(_, _, _, _, _, _)
str_gsub(src, n, b, max_s, anchor, repl) ==
    LET res == match(NewMatchState, src, 1)
        e == res.at
        value == add_value(res.ms, src, e, repl)
        added == IF e = NULL THEN b ELSE b \o value.text
        n1 == IF e = NULL THEN n ELSE n + 1
        Rest(from, out) == [kind |-> "gsub", text |-> out \o Between(from, src_end), n |-> n1]
        Go(from, out) == IF anchor THEN Rest(from, out)
                         ELSE str_gsub(from, n1, out, max_s, anchor, repl)
    IN  CASE n >= max_s -> [kind |-> "gsub", text |-> b \o Between(src, src_end), n |-> n]
          [] n < max_s /\ (e = ERROR \/ (e # NULL /\ value = InvalidCapture)) -> ErrorResult
          [] OTHER -> IF e > src THEN Go(e, added)
                      ELSE IF src < src_end THEN Go(src + 1, Append(added, CharAt(src)))
                      ELSE Rest(src, added)

\* A pattern is written piece by piece and then tried.
WritePiece == /\ ~tried /\ written < MaxPieces
              /\ \E piece \in Pieces : pattern' = pattern \o piece
              /\ written' = written + 1 /\ UNCHANGED <<subject, tried>>
Try == ~tried /\ tried' = TRUE /\ UNCHANGED <<subject, pattern, written>>

PatternInit == subject \in Subjects /\ pattern = <<>> /\ written = 0 /\ tried = FALSE
PatternIdle == subject = <<>> /\ pattern = <<>> /\ written = 0 /\ tried = TRUE
PatternNext == WritePiece \/ Try

(***************************************************************************)
(* What a pattern matches, without captures to undo: all the ways to match *)
(* the items from p on at s, the preferred one first.  A capture is where  *)
(* it begins and the position after it, or "open" or "position".           *)
(***************************************************************************)
ErrorWay == [error |-> TRUE]

\* The lengths of an item of single characters, in the order of preference.
Lengths(item, s) ==
    LET run == Cardinality({k \in s .. Len(subject) :
                              \A m \in s .. k : subject[m] \in item.class})
        Down(from, to) == [k \in 1 .. from - to + 1 |-> from + 1 - k]
    IN  CASE item.rep = "*" -> Down(run, 0)
          [] item.rep = "+" -> Down(run, 1)
          [] item.rep = "-" -> [k \in 1 .. run + 1 |-> k - 1]
          [] item.rep = "?" -> Down(IF run > 0 THEN 1 ELSE 0, 0)
          [] OTHER -> IF run > 0 THEN <<1>> ELSE <<>>

\* The ends of b .. e balanced strings that begin at s.
Balanced(s, b, e) ==
    LET Count(c, k) == Cardinality({m \in s .. k : subject[m] = c})
        ends == {k \in s + 1 .. Len(subject) :
                   IF b = e THEN subject[k] = e ELSE Count(b, k) = Count(e, k)}
    IN  IF CharAt(s) = b /\ ends # {} THEN <<Min(ends) + 1>> ELSE <<>>

RECURSIVE Ways(_, _, _)
Ways(caps, s, p) ==
    LET item == pattern[p]
        opened == {l \in DOMAIN caps : caps[l][2] = "open"}
        From(ends) == FlattenSeq([k \in DOMAIN ends |-> Ways(caps, ends[k], p + 1)])
        Again(cap) ==
            LET len == cap[3] - cap[1]
            IN  IF s + len <= src_end /\ Between(s, s + len) = Between(cap[1], cap[3])
                THEN <<s + len>> ELSE <<>>
    IN  CASE p > Len(pattern) -> <<[at |-> s, caps |-> caps]>>
          [] p <= Len(pattern) /\ item.op = "(" ->
               IF Len(caps) >= LUA_MAXCAPTURES THEN <<ErrorWay>>
               ELSE IF p < Len(pattern) /\ pattern[p + 1] = Close
               THEN Ways(Append(caps, <<s, "position", s>>), s, p + 2)
               ELSE Ways(Append(caps, <<s, "open", s>>), s, p + 1)
          [] p <= Len(pattern) /\ item.op = ")" ->
               IF opened = {} THEN <<ErrorWay>>
               ELSE Ways([caps EXCEPT ![Max(opened)] = <<@[1], "closed", s>>], s, p + 1)
          [] p <= Len(pattern) /\ item.op = "%1" ->
               IF item.index \notin DOMAIN caps THEN <<ErrorWay>>
               ELSE IF item.index \in opened THEN <<ErrorWay>>
               ELSE IF caps[item.index][2] = "position" THEN <<>>
               ELSE From(Again(caps[item.index]))
          [] p <= Len(pattern) /\ item.op = "%b" -> From(Balanced(s, item.open, item.close))
          [] p <= Len(pattern) /\ item.op = "%f" ->
               From(IF CharAt(s - 1) \notin item.class /\ CharAt(s) \in item.class
                    THEN <<s>> ELSE <<>>)
          [] p <= Len(pattern) /\ item.op = "malformed" -> <<ErrorWay>>
          [] p = Len(pattern) /\ item.op = "$" -> From(IF s = src_end THEN <<s>> ELSE <<>>)
          [] OTHER -> From([k \in DOMAIN Lengths(item, s) |-> s + Lengths(item, s)[k]])

CaptureOf(cap) ==
    CASE cap[2] = "open" -> InvalidCapture
      [] cap[2] = "position" -> Position(cap[1])
      [] OTHER -> Text(Between(cap[1], cap[3]))

\* The first match at a place of places, in order.
DescribedAt(places, whole) ==
    LET ways == FlattenSeq([k \in DOMAIN places |->
                  LET here == Ways(<<>>, places[k], 1)
                  IN  [w \in DOMAIN here |-> <<places[k], here[w]>>]])
        s == ways[1][1]
        way == ways[1][2]
    IN  IF ways = <<>> THEN NotFound
        ELSE IF way = ErrorWay THEN ErrorResult
        ELSE Matched(s, way.at, IF way.caps = <<>> /\ whole THEN <<Text(Between(s, way.at))>>
                                ELSE [l \in DOMAIN way.caps |-> CaptureOf(way.caps[l])])

Described(init, anchor, whole) ==
    DescribedAt(IF anchor THEN <<init>> ELSE [k \in 1 .. src_end - init + 1 |-> init + k - 1], whole)

\* The first place of the pattern taken as a text.
TextAt(init) ==
    LET places == {k \in init .. src_end - Len(pattern) :
                     \A q \in DOMAIN pattern : {subject[k + q - 1]} = pattern[q].class}
    IN  IF places = {} THEN NotFound ELSE Matched(Min(places), Min(places) + Len(pattern), <<>>)

(***************************************************************************)
(* Properties.                                                             *)
(***************************************************************************)
Tries == tried' # tried

\* find and match give the first of all ways to match, with the captures of
\* that way alone: none opened or closed on the way to an alternative that
\* failed, none left from it, and the same errors (start_capture,
\* end_capture, max_expand, min_expand).  A find without special characters
\* finds the first place of the text (lmemfind), which is what match finds
\* too when no ")" is in it.
FirstWay ==
    Tries => \A find, anchor \in BOOLEAN, pos \in {1, 2, -1} :
      LET init == IF pos = -1 THEN IF subject = <<>> THEN 1 ELSE Len(subject)
                  ELSE IF pos > src_end THEN src_end ELSE pos
      IN  str_find_aux(find, pos, anchor) =
            IF find /\ ~anchor /\ NoSpecials /\ Close \in ToSet(pattern)
            THEN TextAt(init) ELSE Described(init, anchor, ~find)

\* What gsub puts in the place of a match.
Replaced(m, repl) ==
    LET added(piece) == IF "char" \in DOMAIN piece THEN <<piece.char>>
                        ELSE IF piece.digit = 0 THEN Between(m.from, m.to)
                        ELSE Shown(m.captures[piece.digit])
    IN  CASE repl.type = "string" -> FlattenSeq([q \in DOMAIN repl.pieces |-> added(repl.pieces[q])])
          [] repl.type # "string" /\ repl.result = KeepsText -> Between(m.from, m.to)
          [] OTHER -> repl.result.text

\* The replacement names a capture the match does not have, or is no string.
Refused(m, repl) ==
    IF repl.type # "string" THEN repl.result = InvalidCapture
    ELSE \E q \in DOMAIN repl.pieces :
           "digit" \in DOMAIN repl.pieces[q] /\ repl.pieces[q].digit > Len(m.captures)

\* The text with the first n of the matches replaced.
ReplacedAll(matches, n, repl) ==
    LET begin(k) == IF k = 1 THEN 1 ELSE matches[k - 1].to
    IN  IF \E k \in 1 .. n : Refused(matches[k], repl) THEN ErrorResult
        ELSE [kind |-> "gsub", n |-> n,
              text |-> FlattenSeq([k \in 1 .. n |->
                         Between(begin(k), matches[k].from) \o Replaced(matches[k], repl)])
                       \o Between(begin(n + 1), src_end)]

\* gsub replaces the matches that gmatch gives, at most max_s of them, each by
\* what the replacement makes of that match's captures, and keeps the text
\* between them; a limit of the subject's length and one more, which is the
\* default, stops no substitution (gmatch_aux, str_gsub, add_value).
GsubAsGmatch ==
    Tries =>
      LET all == gmatch_aux(1)
      IN  (\A k \in DOMAIN all : all[k].kind = "match") =>
            \A repl \in Replacements, max_s \in {0, 1, Len(subject) + 1, Len(subject) + 5} :
              str_gsub(1, 0, <<>>, max_s, FALSE, repl)
                = ReplacedAll(all, IF max_s < Len(all) THEN max_s ELSE Len(all), repl)
=============================================================================
