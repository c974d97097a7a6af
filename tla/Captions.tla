------------------------------ MODULE Captions ------------------------------
(***************************************************************************)
(* What the API makes of a result of Transcribe: it takes a request of so  *)
(* many bytes (ServeHTTP of internal/api/api.go), validates the result     *)
(* once more (valid of internal/formats/result.go), and renders its words  *)
(* as captions or as the segments of a verbose response, with the same     *)
(* grouping (Group of internal/formats/formats.go).                        *)
(***************************************************************************)
EXTENDS Transcribe, SequencesExt

CONSTANTS
    Bytes,          \* the bytes of each text, written as JSON
    CharBytes,      \* the most bytes of a character
    WordBytes,      \* of what a word has beside its text: keys, times, confidence
    Envelope,       \* of the rest of a request
    BodyLimit,      \* completeBodyLimit, in bytes
    MaxChars,       \* chars_per_caption
    MaxSegment,     \* of a caption, in milliseconds
    MaxGap          \* between two words of a caption, in milliseconds

ASSUME BodyAssumption ==
    /\ Bytes \in [Text -> Nat] /\ CharBytes \in Nat \ {0}
    /\ {WordBytes, Envelope, BodyLimit} \subseteq Nat
    /\ \A t \in Text : Bytes[t] <= CharBytes * Chars[t]

ASSUME CaptionsAssumption ==
    {MaxChars, MaxSegment, MaxGap} \subseteq Nat

-----------------------------------------------------------------------------
(* The request of complete, and valid *)

\* The request has every text twice: in its word, and in the whole text.
BodyBytes(list) ==
    Envelope + Len(list) * WordBytes + 2 * JoinedLength(Bytes, list)

\* A longer request is refused before it is read: 413, which a worker takes for
\* the end of the job as any other 4xx.
Admitted(list) == BodyBytes(list) <= BodyLimit

\* Mutant: words that begin or end at the same time are refused.
MutInOrderStrict(a, b) == a.start < b.start /\ a.end < b.end

InOrder(a, b) == ~(b.start < a.start \/ b.end < a.end)

ResultValid(list, duration) ==
    /\ Len(list) <= WordLimit /\ TextChars(list) <= MaxTextChars
    /\ 0 < duration /\ duration <= MaxAudio
    /\ 1 <= chunks /\ 0 <= seams.fallback
    /\ \A i \in DOMAIN list :
          /\ Chars[list[i].text] \in 1 .. MaxWordChars
          /\ 0 <= list[i].start /\ list[i].start < list[i].end
          /\ list[i].end <= duration
          /\ i > 1 => InOrder(list[i - 1], list[i])

-----------------------------------------------------------------------------
(* Group *)

\* A word begins a caption: the running count of characters begins with it.
\* Mutant: the count of the caption before goes on.
MutRestarted(chars, n) == chars + n

Restarted(chars, n) == n

\* May word w not join the caption c, of so many characters?
Exceeds(c, chars, w) ==
    \/ chars + 1 + Chars[w.text] > MaxChars
    \/ w.end - Head(c).start > MaxSegment
    \/ w.start - Last(c).end > MaxGap

\* One turn of the loop: the captions so far and the characters of the last.
AddWord(acc, w) ==
    LET n == Chars[w.text]
    IN  IF acc.groups = << >>
        THEN [groups |-> << <<w>> >>, chars |-> n]
        ELSE IF Exceeds(Last(acc.groups), acc.chars, w)
        THEN [groups |-> Append(acc.groups, <<w>>), chars |-> Restarted(acc.chars, n)]
        ELSE [groups |-> Append(Front(acc.groups), Append(Last(acc.groups), w)),
              chars |-> acc.chars + 1 + n]

Group(list) ==
    LET after[k \in 0 .. Len(list)] ==
            IF k = 0 THEN [groups |-> << >>, chars |-> 0]
            ELSE AddWord(after[k - 1], list[k])
    IN  after[Len(list)].groups

\* Mutant: a cue ends with its first word.
MutCueFirst(c) == [start |-> Head(c).start, end |-> Head(c).end]

Cue(c) == [start |-> Head(c).start, end |-> Last(c).end]

Cues(list) == LET g == Group(list) IN [i \in DOMAIN g |-> Cue(g[i])]

-----------------------------------------------------------------------------
(* Properties *)

\* The number of words and of characters that is small enough for any text.
Modest(list) ==
    Envelope + Len(list) * WordBytes + 2 * CharBytes * TextChars(list) <= BodyLimit

\* The validators of the worker and of the API agree: what transcribe returns is
\* refused by complete only because the request is too long, which the limits of
\* the validators alone do not rule out; and never if it has so few words and
\* characters that no writing of them can be (Result.aligned, ServeHTTP, valid).
RefusedForSizeOnly ==
    pc = "returned" =>
        /\ ResultValid(combined, Milliseconds(count))
        /\ Modest(combined) => Admitted(combined)

\* The limits of a caption, as the comment on Group has them.
Fits(c) ==
    /\ TextChars(c) <= MaxChars
    /\ Last(c).end - Head(c).start <= MaxSegment
    /\ \A i \in 1 .. Len(c) - 1 : c[i + 1].start - c[i].end <= MaxGap

\* Captions are the words, all of them, once and in order; a caption of several
\* words keeps every limit, and none ends before a word that it could take
\* (Group).
CaptionsFaithful ==
    pc = "returned" =>
        LET g == Group(combined)
        IN  /\ FlattenSeq(g) = combined
            /\ \A i \in DOMAIN g : g[i] # << >> /\ (Len(g[i]) > 1 => Fits(g[i]))
            /\ \A i \in 1 .. Len(g) - 1 : ~Fits(Append(g[i], Head(g[i + 1])))

\* Every word is spoken while its caption is shown, although words overlap, and
\* the captions neither go back in time nor outlast the audio (Captions).
CaptionsTimed ==
    pc = "returned" =>
        LET g == Group(combined)
            cues == Cues(combined)
        IN  /\ \A i \in DOMAIN g : \A k \in DOMAIN g[i] :
                  cues[i].start <= g[i][k].start /\ g[i][k].end <= cues[i].end
            /\ Ordered(cues)
            /\ \A i \in DOMAIN g : cues[i].end <= Milliseconds(count)
=============================================================================
