------------------------------ MODULE DncList ------------------------------
(***************************************************************************)
(* The DNC list: data/generate_dnc.py writes it, load_dnc_cache of the     *)
(* compliance engine reads it, and nothing keeps the two apart.  The       *)
(* generator may die at any point or run again while the application       *)
(* starts; what reaches the disk in between is any prefix of the file.     *)
(*                                                                         *)
(* A character is a natural: a digit for itself, then Plus, Letter and     *)
(* NewLine.  An absent file is an empty one: both load as nothing.         *)
(***************************************************************************)
EXTENDS Integers, SequencesExt, FiniteSets

CONSTANTS
    Stream,    \* what random.Random(42) yields: <<area, exchange, subscriber>>,
               \* repeated for ever
    Target,    \* how many distinct numbers are wanted
    MaxRuns    \* bound on the runs of the generator

ASSUME DncListAssumption ==
    /\ Stream \in Seq((200..999) \X (200..999) \X (0..9999))
    /\ Target \in 1..Cardinality(Range(Stream))
    /\ MaxRuns \in Nat

VARIABLES
    gen,      \* where the generator stands
    drawn,    \* how often it has drawn since it was seeded
    numbers,  \* the set it collects
    file,     \* mock_dnc_list.csv
    runs,
    reader,   \* where the application stands
    pos,      \* how much of the file it has consumed
    header,   \* header_skipped
    fresh,    \* new_cache
    cache,    \* _dnc_cache
    quiet     \* the file was complete when loading began, and not touched since

generator == <<gen, drawn, numbers, file, runs>>
loader    == <<reader, pos, header, fresh, cache>>
vars      == <<generator, loader, quiet>>

Plus == 10   Letter == 11   NewLine == 12

-----------------------------------------------------------------------------
(***************************************************************************)
(* The generator.                                                          *)
(***************************************************************************)
\* Mutant: {subscriber} instead of {subscriber:04d}.
PaddedNot(n, width) ==
    LET w == CHOOSE k \in 1..width : n < 10^k /\ (k = 1 \/ n >= 10^(k-1)) IN
    [i \in 1..w |-> (n \div 10^(w - i)) % 10]

\* n in decimal, with leading zeros.
Padded(n, width) == [i \in 1..width |-> (n \div 10^(width - i)) % 10]

National(d) == Padded(d[1], 3) \o Padded(d[2], 3) \o Padded(d[3], 4)

E164(d) == <<Plus, 1>> \o National(d)

\* The order of strings, and sorted() in it.
Precedes(s, t) ==
    \E i \in DOMAIN s \cap DOMAIN t :
        s[i] < t[i] /\ \A j \in 1..(i - 1) : s[j] = t[j]

\* Mutant: fh.write(num) instead of writer.writerow([num]).
LineUnterminated(text) == text

Line(text) == text \o <<NewLine>>

\* The numbers in the order in which they are written.
Sorted(ns) ==
    CHOOSE s \in [1..Cardinality(ns) -> ns] :
        \A i, j \in DOMAIN s : i < j => Precedes(s[i], s[j])

Contents(ns) ==
    <<Letter, NewLine>>
        \o FlattenSeq([i \in DOMAIN Sorted(ns) |-> Line(Sorted(ns)[i])])

Generate ==
    /\ gen \in {"idle", "done"}
    /\ runs < MaxRuns
    /\ runs' = runs + 1
    /\ gen' = "drawing"
    /\ drawn' = 0
    /\ numbers' = {}
    /\ UNCHANGED <<file, loader, quiet>>

\* Mutant: random.Random() without a seed.
DrawUnseeded ==
    /\ gen = "drawing"
    /\ Cardinality(numbers) < Target
    /\ numbers' = numbers \cup {E164(Stream[((drawn + runs) % Len(Stream)) + 1])}
    /\ drawn' = drawn + 1
    /\ UNCHANGED <<gen, file, runs, loader, quiet>>

\* Mutant: random.Random(RANDOM_SEED) inside the loop.
DrawReseeded ==
    /\ gen = "drawing"
    /\ Cardinality(numbers) < Target
    /\ numbers' = numbers \cup {E164(Stream[1])}
    /\ UNCHANGED <<gen, drawn, file, runs, loader, quiet>>

Draw ==
    /\ gen = "drawing"
    /\ Cardinality(numbers) < Target
    /\ numbers' = numbers \cup {E164(Stream[(drawn % Len(Stream)) + 1])}
    /\ drawn' = drawn + 1
    /\ UNCHANGED <<gen, file, runs, loader, quiet>>

\* open(.., "w") empties the file.
Truncate ==
    /\ gen = "drawing"
    /\ Cardinality(numbers) >= Target
    /\ gen' = "writing"
    /\ file' = <<>>
    /\ quiet' = FALSE
    /\ UNCHANGED <<drawn, numbers, runs, loader>>

\* Bound: what is flushed first may end anywhere, the second flush is the rest.
FlushEnds(n) == IF file = <<>> THEN 1..n ELSE {n}

Flush ==
    /\ gen = "writing"
    /\ file # Contents(numbers)
    /\ \E k \in FlushEnds(Len(Contents(numbers))) :
          file' = SubSeq(Contents(numbers), 1, k)
    /\ UNCHANGED <<gen, drawn, numbers, runs, loader, quiet>>

Close ==
    /\ gen = "writing"
    /\ file = Contents(numbers)
    /\ gen' = "done"
    /\ drawn' = 0
    /\ numbers' = {}
    /\ UNCHANGED <<file, runs, loader, quiet>>

GeneratorDies ==
    /\ gen \in {"drawing", "writing"}
    /\ gen' = "idle"
    /\ drawn' = 0
    /\ numbers' = {}
    /\ UNCHANGED <<file, runs, loader, quiet>>

-----------------------------------------------------------------------------
(***************************************************************************)
(* load_dnc_cache.                                                         *)
(***************************************************************************)
IsDigit(c) == c \in 0..9

\* Mutant: what is not a digit is kept.
NormalizeForDncVerbatim(phone) ==
    IF Len(phone) = 11 /\ phone[1] = 1 THEN Tail(phone) ELSE phone

\* The digits of phone, in their order.
Digits(phone) ==
    LET upTo[n \in 0..Len(phone)] ==
          IF n = 0 THEN <<>>
          ELSE IF IsDigit(phone[n]) THEN Append(upTo[n - 1], phone[n])
          ELSE upTo[n - 1]
    IN  upTo[Len(phone)]

NormalizeForDnc(phone) ==
    LET digits == Digits(phone) IN
    IF Len(digits) = 11 /\ digits[1] = 1 THEN Tail(digits) ELSE digits

\* Where the line that starts after pos ends: at its NewLine, or where the
\* file ends for the time being.
LineEnd ==
    LET ends == {i \in (pos + 1)..Len(file) : file[i] = NewLine} IN
    IF ends = {} THEN Len(file) ELSE CHOOSE i \in ends : \A j \in ends : i <= j

StartLoading ==
    /\ reader = "down"
    /\ reader' = "reading"
    /\ pos' = 0
    /\ header' = FALSE
    /\ fresh' = {}
    /\ quiet' = (gen = "done")
    /\ UNCHANGED <<cache, generator>>

ReadLine ==
    /\ reader = "reading"
    /\ pos < Len(file)
    /\ pos' = LineEnd
    /\ header' = TRUE
    /\ fresh' = IF header
                THEN fresh \cup ({NormalizeForDnc(SubSeq(file, pos + 1, LineEnd))}
                                    \ {<<>>})
                ELSE fresh
    /\ UNCHANGED <<reader, cache, generator, quiet>>

PublishCache ==
    /\ reader = "reading"
    /\ pos >= Len(file)
    /\ reader' = "serving"
    /\ cache' = fresh
    /\ pos' = 0
    /\ fresh' = {}
    /\ UNCHANGED <<header, generator, quiet>>

AppStops ==
    /\ reader # "down"
    /\ reader' = "down"
    /\ cache' = {}
    /\ pos' = 0
    /\ header' = FALSE
    /\ fresh' = {}
    /\ quiet' = FALSE
    /\ UNCHANGED generator

Init ==
    /\ gen = "idle" /\ drawn = 0 /\ numbers = {} /\ file = <<>> /\ runs = 0
    /\ reader = "down" /\ pos = 0 /\ header = FALSE /\ fresh = {} /\ cache = {}
    /\ quiet = FALSE

GeneratorStep == Draw \/ Truncate \/ Flush \/ Close

Next ==
    \/ Generate \/ GeneratorStep \/ GeneratorDies
    \/ StartLoading \/ ReadLine \/ PublishCache \/ AppStops

\* The generator's loop and its writes go on unless it is killed.
Spec     == Init /\ [][Next]_vars
FairSpec == Spec /\ WF_vars(GeneratorStep)

-----------------------------------------------------------------------------
(***************************************************************************)
(* Properties.                                                             *)
(***************************************************************************)
\* Every variable has its type.
TypeOK ==
    /\ gen \in {"idle", "drawing", "writing", "done"}
    /\ drawn \in Nat
    /\ numbers \subseteq {E164(Stream[i]) : i \in DOMAIN Stream}
    /\ file \in Seq(0..12)
    /\ runs \in 0..MaxRuns
    /\ reader \in {"down", "reading", "serving"}
    /\ pos \in Nat
    /\ header \in BOOLEAN
    /\ fresh \subseteq Seq(0..9)
    /\ cache \subseteq Seq(0..9)
    /\ quiet \in BOOLEAN

\* The draws the list is made of: the shortest prefix of the stream with
\* Target different numbers in it.
Listed ==
    LET Distinct(n) == {Stream[i] : i \in 1..n} IN
    Distinct(CHOOSE n \in DOMAIN Stream :
                /\ Cardinality(Distinct(n)) = Target
                /\ Cardinality(Distinct(n - 1)) < Target)

\* Numbers a NANPA subscriber can have.
Dialable(digits) == Len(digits) = 10 /\ digits[1] \notin {0, 1}

\* A torn line, or a line read in two pieces because the generator was still
\* writing it, never puts somebody else's number on the list.
CacheIsGenuine ==
    \A digits \in fresh \cup cache :
        Dialable(digits) => digits \in {National(d) : d \in Listed}

\* If the list was complete when the application began to load it, exactly
\* its numbers are enforced.
FinishedListEnforced ==
    (reader = "serving" /\ quiet) => cache = {National(d) : d \in Listed}

\* generate_dnc.py:5, "the same call to generate() always produces the same
\* file", with Target numbers in it, however earlier runs ended.
FileReproducible ==
    gen = "done" => file = Contents({E164(d) : d \in Listed})

\* A generator that is not killed finishes.
GeneratorEnds == gen = "drawing" ~> gen \in {"done", "idle"}

=============================================================================
