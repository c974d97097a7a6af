------------------------------- MODULE Seams -------------------------------
(***************************************************************************)
(* How the transcripts of two overlapping windows of audio are joined      *)
(* (merge_words and recovered of chunking.py).  A word has a text and the  *)
(* interval of time, in milliseconds, in which it was heard.               *)
(***************************************************************************)
EXTENDS Integers, Sequences, FiniteSets

CONSTANTS
    Overlap,    \* of two windows: overlap_ms
    Margin,     \* words by which a reading must be longer to be preferred
    Silent      \* the text of a word without letters, such as a dash

ASSUME SeamsAssumption == Overlap \in Nat \ {0} /\ Margin \in Nat

Distance(a, b) == IF a <= b THEN b - a ELSE a - b

Ordered(words) ==
    \A i \in 1 .. Len(words) - 1 :
        /\ words[i].start <= words[i + 1].start
        /\ words[i].end <= words[i + 1].end

\* The positions of S, from the first to the last.
Sorted(S) ==
    [k \in 1 .. Cardinality(S) |->
        CHOOSE i \in S : Cardinality({j \in S : j <= i}) = k]

\* The words at the positions of S: a list comprehension.
Chosen(words, S) == LET at == Sorted(S) IN [k \in DOMAIN at |-> words[at[k]]]

\* Two readings of the same word: normalized texts, at nearly the same time.
Same(a, b) ==
    /\ a.text = b.text /\ a.text # Silent
    /\ 2 * Distance(a.start, b.start) <= Overlap

\* The matching runs <<i, j, n>> of the overlap: n words, from the i-th of the
\* old ones and the j-th of the new ones on.
Runs(previous, incoming, old, new) ==
    {r \in (1 .. Len(old)) \X (1 .. Len(new)) \X (1 .. Len(new)) :
        /\ r[1] + r[3] <= Len(old) + 1 /\ r[2] + r[3] <= Len(new) + 1
        /\ \A k \in 0 .. r[3] - 1 :
              Same(previous[old[r[1] + k]], incoming[new[r[2] + k]])}

\* The first of the longest runs, as the pairs of positions it matches.
Matches(previous, incoming, start) ==
    LET old == Sorted({i \in DOMAIN previous : previous[i].end >= start})
        new == Sorted({j \in DOMAIN incoming : incoming[j].start <= start + Overlap})
        runs == Runs(previous, incoming, old, new)
        best == CHOOSE r \in runs : \A s \in runs :
                    \/ s[3] < r[3]
                    \/ s[3] = r[3] /\ (r[1] < s[1] \/ (r[1] = s[1] /\ r[2] <= s[2]))
    IN  IF runs = {} THEN << >>
        ELSE [k \in 1 .. best[3] |-> <<old[best[1] + k - 1], new[best[2] + k - 1]>>]

\* Where to cut: at the centre of the run, then at its other words.
Candidates(matches) ==
    LET center == Len(matches) \div 2 + 1
    IN  IF matches = << >> THEN << >>
        ELSE <<matches[center]>> \o SubSeq(matches, 1, center - 1)
             \o SubSeq(matches, center + 1, Len(matches))

\* The old words before the seam p, and the new ones from it on.
Cut(previous, incoming, p) ==
    SubSeq(previous, 1, p[1] - 1) \o SubSeq(incoming, p[2], Len(incoming))

\* Mutant: the new words replace all of the old ones.
MutFilledForgets(previous, incoming) == incoming

\* All of the new words, after the old ones that ended before them.
Filled(previous, incoming) ==
    Chosen(previous, {i \in DOMAIN previous : previous[i].end <= incoming[1].start})
    \o incoming

\* Mutant: what the old window heard before the seam is not counted.
MutHeardMoreAlone(previous, p, start) == p[2] - 1 >= Margin

\* The new window heard clearly more words before the seam than the old one.
HeardMore(previous, p, start) ==
    p[2] - 1 >= Cardinality({i \in 1 .. p[1] - 1 : previous[i].end > start}) + Margin

Recovers(previous, incoming, p, start) ==
    HeardMore(previous, p, start) /\ Ordered(Filled(previous, incoming))

\* Mutant: a seam is taken without a look at the order of the words.
MutUsableUnordered(previous, incoming, p, start) == TRUE

Usable(previous, incoming, p, start) ==
    \/ Recovers(previous, incoming, p, start)
    \/ Ordered(Cut(previous, incoming, p))

\* Without a match: the old words up to the middle of the overlap, and then the
\* new ones.
Split(previous, incoming, start) ==
    LET Early(w) == w.start + w.end < 2 * start + Overlap
    IN  Chosen(previous, {i \in DOMAIN previous : Early(previous[i])})
        \o Chosen(incoming, {j \in DOMAIN incoming : ~Early(incoming[j])})

Joined(words, seam) == [words |-> words, seam |-> seam]

\* The seam of two transcripts that do overlap.
Join(previous, incoming, start) ==
    LET tries == Candidates(Matches(previous, incoming, start))
        usable == {k \in DOMAIN tries : Usable(previous, incoming, tries[k], start)}
        split == Split(previous, incoming, start)
    IN  IF usable # {}
        THEN LET p == tries[CHOOSE k \in usable : \A l \in usable : k <= l]
             IN  IF Recovers(previous, incoming, p, start)
                 THEN Joined(Filled(previous, incoming), "recovered")
                 ELSE Joined(Cut(previous, incoming, p), "clean")
        ELSE IF Ordered(split) THEN Joined(split, "fallback")
        ELSE Joined(previous, "failed")

Merge(previous, incoming, start) ==
    IF previous = << >> THEN Joined(incoming, "clean")
    ELSE IF incoming = << >> THEN Joined(previous, "clean")
    ELSE IF previous[Len(previous)].end <= incoming[1].start
         THEN Joined(previous \o incoming, "clean")
    ELSE Join(previous, incoming, start)
=============================================================================
