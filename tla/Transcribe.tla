----------------------------- MODULE Transcribe -----------------------------
(***************************************************************************)
(* One inference (Engine.transcribe): the decoded audio is read in windows *)
(* that overlap (windows of chunking.py), the words of each window get     *)
(* times inside it (words_from_result of alignment.py) and are joined to   *)
(* those before (Seams), and the whole must pass the result's validation   *)
(* (Result of parakeet_api/formats.py).                                    *)
(*                                                                         *)
(* The recognizer is the environment: it may report any words, with any    *)
(* times, as long as neither their starts nor their ends go back.          *)
(***************************************************************************)
EXTENDS Seams

CONSTANTS
    Rate,        \* samples per millisecond
    Size,        \* of a window, in milliseconds
    MaxAudio,    \* the longest audio, in milliseconds
    WordLimit,   \* of a transcript
    MaxWordChars, MaxTextChars, \* the longest word, and the longest transcript
    Samples,     \* bound of the model: the lengths of audio to try
    Text,        \* bound of the model: what words may be
    Chars,       \* the number of characters of each text
    Extent,      \* bound of the model: the lengths of words, in milliseconds
    Spoken       \* bound of the model: words in a window

ASSUME WindowAssumption ==
    /\ Rate \in Nat \ {0} /\ Size \in Nat /\ Overlap < Size
    /\ MaxAudio \in Nat /\ WordLimit \in Nat
    /\ Samples \subseteq Nat /\ Extent \subseteq Nat /\ Spoken \in Nat

\* No word is empty: words_from_result makes one of each run of characters.
ASSUME TextAssumption ==
    /\ Chars \in [Text -> Nat \ {0}]
    /\ MaxWordChars \in Nat /\ MaxTextChars \in Nat

\* Windows last and overlap whole seconds, so that they go forward by an even
\* number of milliseconds: halves are rounded alike in each of them.
ASSUME StrideAssumption == (Size - Overlap) % 2 = 0

VARIABLES
    pc,          \* where transcribe is, or how it ended
    count,       \* the samples of the audio
    first, last, \* the current window, in samples
    words,       \* its words
    combined,    \* the transcript so far
    chunks,      \* the windows joined so far
    seams        \* how many of them needed a fallback, or a recovery

transcribeVars == <<pc, count, first, last, words, combined, chunks, seams>>

Stride == Size - Overlap

Minimum(a, b) == IF a <= b THEN a ELSE b
Maximum(a, b) == IF a >= b THEN a ELSE b

\* round(n / Rate): to the nearest, and to the even one of two.
Milliseconds(n) ==
    LET q == n \div Rate
        r == 2 * (n % Rate)
    IN  IF r < Rate \/ (r = Rate /\ q % 2 = 0) THEN q ELSE q + 1

\* The times of a word, inside a window that lasts duration.
Aligned(w, duration) ==
    LET from == Maximum(0, Minimum(duration - 1, w.start))
    IN  [w EXCEPT !.start = from,
                  !.end = Minimum(duration, Maximum(from + 1, w.end))]

Shifted(w, offset) == [w EXCEPT !.start = @ + offset, !.end = @ + offset]

\* What the recognizer may report of a window: words that start in it.
Heard(duration) ==
    LET word == [text : Text, start : 0 .. duration, end : 0 .. duration + 1]
        timed == {w \in word : w.end - w.start \in Extent}
    IN  UNION {{s \in [1 .. n -> timed] : Ordered(s)} : n \in 0 .. Spoken}

TranscribeInit ==
    /\ pc = "decoding"
    /\ count \in Samples
    /\ first = 0 /\ last = 0
    /\ words = << >> /\ combined = << >>
    /\ chunks = 0
    /\ seams = [fallback |-> 0, recovered |-> 0]

\* ffmpeg has decoded the audio: validate_duration.
Decode ==
    /\ pc = "decoding"
    /\ pc' = IF 0 < count /\ count <= MaxAudio * Rate THEN "window" ELSE "failed"
    /\ UNCHANGED <<count, first, last, words, combined, chunks, seams>>

\* check finds the job cancelled or out of time, or there is something wrong
\* with the audio or with what the recognizer returns.
Halt ==
    /\ pc \in {"decoding", "window"}
    /\ pc' \in {"interrupted", "failed"}
    /\ UNCHANGED <<count, first, last, words, combined, chunks, seams>>

\* Mutant: windows goes on while one can begin inside the audio.
MutLastWindowLate == chunks > 0 /\ chunks * Stride * Rate >= count

\* windows ends with the window that reaches the end of the audio.
LastWindow == chunks > 0 /\ last = count

Recognize ==
    /\ pc = "window" /\ ~LastWindow
    /\ pc' = "merge"
    /\ first' = chunks * Stride * Rate
    /\ last' = Minimum(first' + Size * Rate, count)
    /\ LET duration == Milliseconds(last' - first')
       IN  \E s \in Heard(duration) :
              words' = [i \in DOMAIN s |->
                           Shifted(Aligned(s[i], duration), first' \div Rate)]
    /\ UNCHANGED <<count, combined, chunks, seams>>

MergeWords ==
    LET merged == Merge(combined, words, first \div Rate)
    IN  /\ pc = "merge"
        /\ IF merged.seam = "failed"
           THEN pc' = "failed" /\ UNCHANGED <<combined, chunks, seams>>
           ELSE /\ pc' = IF Len(merged.words) > WordLimit THEN "failed" ELSE "window"
                /\ combined' = merged.words
                /\ chunks' = chunks + 1
                /\ seams' = IF merged.seam = "clean" THEN seams
                            ELSE [seams EXCEPT ![merged.seam] = @ + 1]
        /\ words' = << >>
        /\ UNCHANGED <<count, first, last>>

\* The words of list joined by spaces: how long, if size is that of each text.
JoinedLength(size, list) ==
    LET upTo[k \in 0 .. Len(list)] ==
            IF k = 0 THEN 0
            ELSE upTo[k - 1] + (IF k = 1 THEN 0 ELSE 1) + size[list[k].text]
    IN  upTo[Len(list)]

TextChars(list) == JoinedLength(Chars, list)

\* The text and the words of list have room in the fields of Result.
HasRoom(list) ==
    /\ TextChars(list) <= MaxTextChars
    /\ \A i \in DOMAIN list : Chars[list[i].text] \in 1 .. MaxWordChars

\* aligned, and the limits of the fields of Result.
Valid ==
    LET duration == Milliseconds(count)
    IN  /\ 0 < duration /\ duration <= MaxAudio
        /\ 1 <= chunks /\ 0 <= seams.fallback
        /\ Len(combined) <= WordLimit /\ HasRoom(combined)
        /\ Ordered(combined)
        /\ \A i \in DOMAIN combined :
              /\ 0 <= combined[i].start /\ combined[i].start < combined[i].end
              /\ combined[i].end <= duration

\* A ValidationError is not among the permanent failures: the job is retried.
Return ==
    /\ pc = "window" /\ LastWindow
    /\ pc' = IF Valid THEN "returned" ELSE "invalid"
    /\ UNCHANGED <<count, first, last, words, combined, chunks, seams>>

TranscribeNext == Decode \/ Halt \/ Recognize \/ MergeWords \/ Return

TranscribeSpec == TranscribeInit /\ [][TranscribeNext]_transcribeVars

-----------------------------------------------------------------------------
(* Properties *)

\* Every window but the first begins exactly Overlap before the end of the one
\* before it and reaches further, so all of the audio is heard, no window is
\* heard in vain, and a result is made of all of it (windows).
WindowsCover ==
    /\ [][pc' = "merge" =>
             /\ last < last'
             /\ first' = IF chunks = 0 THEN 0 ELSE last - Overlap * Rate]_transcribeVars
    /\ [](pc = "returned" => first = (chunks - 1) * Stride * Rate /\ last = count)

\* What a seam may touch is the overlap: every word that ended before it and
\* every word that begins after it stays, in its place, and each word of the
\* result was heard (merge_words: "Only the overlap participates").
OverlapOnly ==
    [][chunks' = chunks + 1 =>
         LET start == first \div Rate
             kept == Chosen(combined, {i \in DOMAIN combined : combined[i].end < start})
             new == Chosen(words, {j \in DOMAIN words : words[j].start > start + Overlap})
             n == Len(combined')
         IN  /\ Len(kept) <= n /\ SubSeq(combined', 1, Len(kept)) = kept
             /\ Len(new) <= n /\ SubSeq(combined', n - Len(new) + 1, n) = new
             /\ \A i \in 1 .. n :
                   \/ \E k \in DOMAIN combined : combined'[i] = combined[k]
                   \/ \E k \in DOMAIN words : combined'[i] = words[k]]_transcribeVars

\* Where the new window's reading of a passage replaces the old one, the
\* transcript gets at least Margin words longer than a cut at that seam (recovered).
RecoveryGains ==
    [][seams'.recovered > seams.recovered =>
         \E k \in DOMAIN Matches(combined, words, first \div Rate) :
            Len(combined') >=
               Len(Cut(combined, words, Matches(combined, words, first \div Rate)[k]))
               + Margin]_transcribeVars

\* Joined words pass the validation of the result, and so that of the API: a
\* job is never retried, to fail in the same way, for what merging made of its
\* words.  Only audio of less than half a millisecond is refused there, and
\* words that were heard so long that there is no room for them.
NeverInvalid ==
    pc = "invalid" => Milliseconds(count) = 0 \/ ~HasRoom(combined)
=============================================================================
