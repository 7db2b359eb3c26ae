----------------------------- MODULE WindowProofs ----------------------------
(***************************************************************************)
(* Proof that the gateway, with the tables it ships, keeps the statute's   *)
(* calling windows: at every instant and for every number.                 *)
(***************************************************************************)
EXTENDS DecisionProofs, CallingWindows

-----------------------------------------------------------------------------
(***************************************************************************)
(* The routing table against the statute's reading, one section at a time. *)
(***************************************************************************)
LEMMA EasternRow ==
    ASSUME NEW g \in EasternCodes[2], NEW a \in g[2], StateOf(a) = g[1]
    PROVE  UtcHours(a) = -5 /\ g[1] \notin NoDstStates
  BY DEF EasternCodes, UtcHours, NoDstStates, CentralStates, MountainStates,
     PacificStates

LEMMA CentralRow ==
    ASSUME NEW g \in CentralCodes[2], NEW a \in g[2], StateOf(a) = g[1]
    PROVE  UtcHours(a) = -6 /\ g[1] \notin NoDstStates
  BY DEF CentralCodes, UtcHours, NoDstStates, CentralStates, MountainStates,
     PacificStates

LEMMA MountainRow ==
    ASSUME NEW g \in MountainCodes[2], NEW a \in g[2], StateOf(a) = g[1]
    PROVE  UtcHours(a) = -7 /\ g[1] \notin NoDstStates
  BY DEF MountainCodes, UtcHours, NoDstStates, CentralStates, MountainStates,
     PacificStates

LEMMA ArizonaRow ==
    ASSUME NEW g \in ArizonaCodes[2], NEW a \in g[2], StateOf(a) = g[1]
    PROVE  UtcHours(a) = -7 /\ g[1] \in NoDstStates
  BY DEF ArizonaCodes, UtcHours, NoDstStates, CentralStates, MountainStates,
     PacificStates

LEMMA PacificRow ==
    ASSUME NEW g \in PacificCodes[2], NEW a \in g[2], StateOf(a) = g[1]
    PROVE  UtcHours(a) = -8 /\ g[1] \notin NoDstStates
  BY DEF PacificCodes, UtcHours, NoDstStates, CentralStates, MountainStates,
     PacificStates

LEMMA IslandRow ==
    ASSUME NEW s \in IslandAndAlaskaCodes, NEW g \in s[2], NEW a \in g[2],
           StateOf(a) = g[1]
    PROVE  /\ s[1] \in Zones => UtcHours(a) = StandardHours[s[1]]
           /\ s[1] \in ObservesDst <=> g[1] \notin NoDstStates
  BY DEF IslandAndAlaskaCodes, UtcHours, NoDstStates, CentralStates,
     MountainStates, PacificStates, StandardHours, ObservesDst

\* The codes with the early cutoff are those the table gives to its two states.
LEMMA EasternCutoff ==
    ASSUME NEW g \in EasternCodes[2], NEW a \in g[2]
    PROVE  g[1] \in {"FL", "CT"} <=> a \in EarlyCodes
  BY DEF EasternCodes, EarlyCodes, FloridaCodes, ConnecticutCodes

LEMMA CentralCutoff ==
    ASSUME NEW g \in CentralCodes[2], NEW a \in g[2]
    PROVE  g[1] \in {"FL", "CT"} <=> a \in EarlyCodes
  BY DEF CentralCodes, EarlyCodes, FloridaCodes, ConnecticutCodes

LEMMA MountainCutoff ==
    ASSUME NEW g \in MountainCodes[2], NEW a \in g[2]
    PROVE  g[1] \in {"FL", "CT"} <=> a \in EarlyCodes
  BY DEF MountainCodes, EarlyCodes, FloridaCodes, ConnecticutCodes

LEMMA ArizonaCutoff ==
    ASSUME NEW g \in ArizonaCodes[2], NEW a \in g[2]
    PROVE  g[1] \in {"FL", "CT"} <=> a \in EarlyCodes
  BY DEF ArizonaCodes, EarlyCodes, FloridaCodes, ConnecticutCodes

LEMMA PacificCutoff ==
    ASSUME NEW g \in PacificCodes[2], NEW a \in g[2]
    PROVE  g[1] \in {"FL", "CT"} <=> a \in EarlyCodes
  BY DEF PacificCodes, EarlyCodes, FloridaCodes, ConnecticutCodes

LEMMA IslandCutoff ==
    ASSUME NEW s \in IslandAndAlaskaCodes, NEW g \in s[2], NEW a \in g[2]
    PROVE  g[1] \in {"FL", "CT"} <=> a \in EarlyCodes
  BY DEF IslandAndAlaskaCodes, EarlyCodes, FloridaCodes, ConnecticutCodes

\* Every row of the table has a zone with the hours of its state.
LEMMA RowOf ==
    ASSUME NEW a \in ListedCodes
    PROVE  \E s \in Sections : \E g \in s[2] :
              /\ a \in g[2]
              /\ EntryOf(a) = <<s[1], g[1], g[2]>>
  <1>1. PICK e \in Entries : a \in e[3]
    BY DEF ListedCodes
  <1>2. EntryOf(a) \in Entries /\ a \in EntryOf(a)[3]
    BY <1>1 DEF EntryOf
  <1>. QED
    BY <1>2 DEF Entries

LEMMA ZoneOfSection ==
    ASSUME NEW s \in Sections, NEW g \in s[2]
    PROVE  s[1] \in Zones
  <1>1. <<s[1], g[1], g[2]>> \in Entries
    BY DEF Entries
  <1>. QED
    BY <1>1 DEF Zones

LEMMA CodeOfSection ==
    ASSUME NEW s \in Sections, NEW g \in s[2], NEW a \in g[2]
    PROVE  a \in ListedCodes
  <1>1. <<s[1], g[1], g[2]>> \in Entries
    BY DEF Entries
  <1>. QED
    BY <1>1 DEF ListedCodes

\* The codes the statute's reading singles out are all in the table.
LEMMA ExceptionsListed ==
    {850, 219, 270, 364, 423, 865, 915} \cup EarlyCodes \subseteq ListedCodes
  <1>1. {EasternCodes, CentralCodes, MountainCodes} \subseteq Sections
    BY DEF Sections
  <1>2. /\ <<"TN", {423, 865}>> \in EasternCodes[2]
        /\ <<"CT", ConnecticutCodes>> \in EasternCodes[2]
        /\ <<"FL", FloridaCodes \ {850}>> \in EasternCodes[2]
    BY DEF EasternCodes, ConnecticutCodes, FloridaCodes
  <1>3. {<<"FL", {850}>>, <<"IN", {219}>>, <<"KY", {270, 364}>>} \subseteq CentralCodes[2]
    BY DEF CentralCodes
  <1>4. <<"TX", {915}>> \in MountainCodes[2]
    BY DEF MountainCodes
  <1>5. ASSUME NEW s \in Sections, NEW st, NEW codes, <<st, codes>> \in s[2]
        PROVE  codes \subseteq ListedCodes
    BY <1>5, CodeOfSection
  <1>6. {423, 865} \subseteq ListedCodes
    BY <1>1, <1>2, <1>5
  <1>7. {850} \subseteq ListedCodes /\ {219} \subseteq ListedCodes
    BY <1>1, <1>3, <1>5
  <1>8. {270, 364} \subseteq ListedCodes
    BY <1>1, <1>3, <1>5
  <1>9. {915} \subseteq ListedCodes
    BY <1>1, <1>4, <1>5
  <1>10. /\ ConnecticutCodes \subseteq ListedCodes
         /\ FloridaCodes \ {850} \subseteq ListedCodes
    BY <1>1, <1>2, <1>5
  <1>. QED
    BY <1>6, <1>7, <1>8, <1>9, <1>10 DEF EarlyCodes

LEMMA HoursOfState ==
    ASSUME NEW a, AREA_CODE_MAP = AreaCodeTable, NEW n, n.area = a
    PROVE  LET where == ResolvePhone(n) IN
           /\ where.state_code = StateOf(a)
           /\ where.timezone \in Zones
           /\ StandardHours[where.timezone] = UtcHours(a)
           /\ where.timezone \in ObservesDst <=> StateOf(a) \notin NoDstStates
           /\ where.state_code \in {"FL", "CT"} <=> a \in EarlyCodes
  <1>1. CASE a \in ListedCodes
    <2>1. PICK s \in Sections : \E g \in s[2] :
             a \in g[2] /\ EntryOf(a) = <<s[1], g[1], g[2]>>
      BY <1>1, RowOf
    <2>g. PICK g \in s[2] :
             a \in g[2] /\ EntryOf(a) = <<s[1], g[1], g[2]>>
      BY <2>1
    <2>2. /\ DOMAIN AreaCodeTable = ListedCodes
          /\ AreaCodeTable[a] = [state_code |-> g[1], timezone |-> s[1]]
      BY <1>1, <2>g DEF AreaCodeTable
    <2>3. StateOf(a) = g[1]
      BY <1>1, <2>2 DEF StateOf
    <2>4. ResolvePhone(n) = [state_code |-> g[1], timezone |-> s[1]]
      BY <1>1, <2>2 DEF ResolvePhone
    <2>5. s[1] \in Zones
      BY ZoneOfSection
    <2>6. /\ StandardHours[s[1]] = UtcHours(a)
          /\ s[1] \in ObservesDst <=> g[1] \notin NoDstStates
      <3>1. CASE s = EasternCodes
        <4>1. s[1] = "America/New_York"
          BY <3>1 DEF EasternCodes
        <4>2. UtcHours(a) = -5 /\ g[1] \notin NoDstStates
          BY <2>g, <2>3, <3>1, EasternRow
        <4>. QED
          BY <2>5, <4>1, <4>2 DEF StandardHours, ObservesDst
      <3>2. CASE s = CentralCodes
        <4>1. s[1] = "America/Chicago"
          BY <3>2 DEF CentralCodes
        <4>2. UtcHours(a) = -6 /\ g[1] \notin NoDstStates
          BY <2>g, <2>3, <3>2, CentralRow
        <4>. QED
          BY <2>5, <4>1, <4>2 DEF StandardHours, ObservesDst
      <3>3. CASE s = MountainCodes
        <4>1. s[1] = "America/Denver"
          BY <3>3 DEF MountainCodes
        <4>2. UtcHours(a) = -7 /\ g[1] \notin NoDstStates
          BY <2>g, <2>3, <3>3, MountainRow
        <4>. QED
          BY <2>5, <4>1, <4>2 DEF StandardHours, ObservesDst
      <3>4. CASE s = ArizonaCodes
        <4>1. s[1] = "America/Phoenix"
          BY <3>4 DEF ArizonaCodes
        <4>2. UtcHours(a) = -7 /\ g[1] \in NoDstStates
          BY <2>g, <2>3, <3>4, ArizonaRow
        <4>. QED
          BY <2>5, <4>1, <4>2 DEF StandardHours, ObservesDst
      <3>5. CASE s = PacificCodes
        <4>1. s[1] = "America/Los_Angeles"
          BY <3>5 DEF PacificCodes
        <4>2. UtcHours(a) = -8 /\ g[1] \notin NoDstStates
          BY <2>g, <2>3, <3>5, PacificRow
        <4>. QED
          BY <2>5, <4>1, <4>2 DEF StandardHours, ObservesDst
      <3>6. CASE s \in IslandAndAlaskaCodes
        BY <2>g, <2>3, <2>5, <3>6, IslandRow
      <3>. QED
        BY <2>g, <3>1, <3>2, <3>3, <3>4, <3>5, <3>6 DEF Sections
    <2>7. g[1] \in {"FL", "CT"} <=> a \in EarlyCodes
      BY <2>g, EasternCutoff, CentralCutoff, MountainCutoff, ArizonaCutoff,
         PacificCutoff, IslandCutoff DEF Sections
    <2>. QED
      BY <2>3, <2>4, <2>5, <2>6, <2>7
  <1>2. CASE a \notin ListedCodes
    <2>1. DOMAIN AREA_CODE_MAP = ListedCodes
      BY DEF AreaCodeTable
    <2>2. ResolvePhone(n) = FEDERAL_FALLBACK /\ StateOf(a) = "US"
      BY <1>2, <2>1 DEF ResolvePhone, StateOf
    <2>3. UtcHours(a) = -5
      BY <1>2, <2>2, ExceptionsListed
         DEF UtcHours, CentralStates, MountainStates, PacificStates
    <2>4. "America/New_York" \in Zones
      <3>1. EasternCodes \in Sections /\ EasternCodes[1] = "America/New_York"
        BY DEF Sections, EasternCodes
      <3>2. <<"ME", {207}>> \in EasternCodes[2]
        BY DEF EasternCodes
      <3>. QED
        BY <3>1, <3>2, ZoneOfSection
    <2>5. a \notin EarlyCodes
      BY <1>2, ExceptionsListed
    <2>. QED
      BY <2>2, <2>3, <2>4, <2>5 DEF FEDERAL_FALLBACK, StandardHours, ObservesDst,
         NoDstStates
  <1>. QED
    BY <1>1, <1>2

-----------------------------------------------------------------------------
(***************************************************************************)
(* Local time against UTC.                                                 *)
(***************************************************************************)
\* A time of day is in a window of at most a day exactly if less than the
\* window's length has passed since it opened.
LEMMA SinceOpening ==
    ASSUME NEW x \in Int, NEW open \in Nat, NEW length \in Nat,
           open + length <= DaySeconds
    PROVE  (open <= x % DaySeconds /\ x % DaySeconds < open + length)
              <=> (x - open) % DaySeconds < length
  <1> DEFINE q == x \div 86400
             m == x % 86400
  <1>1. q \in Int /\ m \in Int /\ 0 <= m /\ m < 86400 /\ x = 86400 * q + m
    OBVIOUS
  <1> HIDE DEF q, m
  <1>2. CASE open <= m
    <2>1. x - open = 86400 * q + (m - open) /\ 0 <= m - open /\ m - open < 86400
      BY <1>1, <1>2
    <2>2. (x - open) % 86400 = m - open
      BY <1>1, <2>1
    <2>. QED
      BY <1>1, <1>2, <2>2 DEF m, DaySeconds
  <1>3. CASE ~(open <= m)
    <2>1. /\ x - open = 86400 * (q - 1) + (m - open + 86400)
          /\ 0 <= m - open + 86400 /\ m - open + 86400 < 86400
      BY <1>1, <1>3 DEF DaySeconds
    <2>2. (x - open) % 86400 = m - open + 86400
      BY <1>1, <2>1
    <2>. QED
      BY <1>1, <1>3, <2>2 DEF m, DaySeconds
  <1>. QED
    BY <1>2, <1>3

\* The clocks change in the dead of night: between the local and the
\* statute's reading of the change it is too early to call by either.
LEMMA NightOfChange ==
    ASSUME NEW t \in Nat, NEW h \in {-5, -6, -7, -8, -9},
           NEW dst \in {0, 1}, NEW summer \in {0, 1}, dst # summer,
           dst = 1 <=> /\ t >= At(SpringForward, 2 - h, 0, 0)
                       /\ t <  At(FallBack, 1 - h, 0, 0),
           summer = 1 <=> Summer(t)
    PROVE  /\ (t + 3600 * (h + dst)) % DaySeconds < 8 * 3600
           /\ (t + 3600 * (h + summer) - 8 * 3600) % DaySeconds >= 18 * 3600
  <1>1. CASE dst = 1
    <2>1. /\ 5702400 + 3600 * (2 - h) <= t
          /\ t < 5702400 + 3600 * 12
      BY <1>1 DEF Summer, At, SpringForward, FallBack, DaySeconds
    <2> DEFINE m == t + 3600 * h - 5702400
    <2>2. m \in Int /\ 7200 <= m /\ m < 7 * 3600
      BY <2>1
    <2>3. t + 3600 * (h + 1) = 86400 * 66 + (m + 3600)
      OBVIOUS
    <2>4. t + 3600 * (h + 0) - 8 * 3600 = 86400 * 65 + (m + 57600)
      OBVIOUS
    <2> HIDE DEF m
    <2>5. (86400 * 66 + (m + 3600)) % 86400 = m + 3600
      BY <2>2
    <2>6. (86400 * 65 + (m + 57600)) % 86400 = m + 57600
      BY <2>2
    <2>7. summer = 0
      BY <1>1
    <2>. QED
      BY <1>1, <2>2, <2>3, <2>4, <2>5, <2>6, <2>7 DEF DaySeconds
  <1>2. CASE dst = 0
    <2>1. /\ 26265600 + 3600 * (1 - h) <= t
          /\ t < 26265600 + 3600 * 12
      BY <1>2 DEF Summer, At, SpringForward, FallBack, DaySeconds
    <2> DEFINE m == t + 3600 * h - 26265600
    <2>2. m \in Int /\ 3600 <= m /\ m < 7 * 3600
      BY <2>1
    <2>3. t + 3600 * (h + 0) = 86400 * 304 + m
      OBVIOUS
    <2>4. t + 3600 * (h + 1) - 8 * 3600 = 86400 * 303 + (m + 61200)
      OBVIOUS
    <2> HIDE DEF m
    <2>5. (86400 * 304 + m) % 86400 = m
      BY <2>2
    <2>6. (86400 * 303 + (m + 61200)) % 86400 = m + 61200
      BY <2>2
    <2>7. summer = 1
      BY <1>2
    <2>. QED
      BY <1>2, <2>2, <2>3, <2>4, <2>5, <2>6, <2>7 DEF DaySeconds
  <1>. QED
    BY <1>1, <1>2

-----------------------------------------------------------------------------
(***************************************************************************)
(* The check of the calling window against the statute's reading.          *)
(***************************************************************************)
\* Some rule row applies, from eight for as many hours as HoursOpen says.
LEMMA RuleExists ==
    ASSUME ShippedTables, NEW n
    PROVE  RuleState(n) \in DOMAIN StateRules
  BY DEF ShippedTables, RuleState, SeededRules

LEMMA RuleHours ==
    ASSUME ShippedTables, NEW n
    PROVE  /\ StateRules[RuleState(n)].start_time = 28800
           /\ StateRules[RuleState(n)].end_time =
                 IF HoursOpen(n.area) = 12 THEN 72000 ELSE 75600
  <1>1. ResolvePhone(n).state_code \in {"FL", "CT"} <=> n.area \in EarlyCodes
    BY HoursOfState DEF ShippedTables
  <1>. QED
    BY <1>1 DEF ShippedTables, RuleState, SeededRules, HoursOpen

\* Local time, with the offset the statute's reading has or, on the nights
\* the clocks change, with another.
LEMMA LocalTimeOf ==
    ASSUME ShippedTables, NEW n, NEW t \in Instants, ZoneKnown(n)
    PROVE  LET h   == UtcHours(n.area)
               dst == IF DaylightSaving(ResolvePhone(n).timezone, t) THEN 1 ELSE 0
           IN  LocalTime(n, t) = (t + 3600 * (h + dst)) % DaySeconds
  <1> DEFINE z == ResolvePhone(n).timezone
  <1>1. z \in Zones /\ StandardHours[z] = UtcHours(n.area)
    BY HoursOfState DEF ShippedTables
  <1>2. UtcOffset[z] = Offsets2026[z]
    BY DEF ShippedTables, ZoneKnown
  <1>3. z \in DOMAIN StandardHours
    BY <1>1 DEF StandardHours
  <1>4. UtcOffset[z][t] =
           3600 * (UtcHours(n.area) + IF DaylightSaving(z, t) THEN 1 ELSE 0)
    BY <1>1, <1>2, <1>3 DEF Offsets2026
  <1>. QED
    BY <1>4 DEF LocalTime

LEMMA UtcHoursRange ==
    ASSUME NEW a
    PROVE  UtcHours(a) \in {-11, -10, -9, -8, -7, -6, -5, -4, 10}
  BY DEF UtcHours

LEMMA WindowIsStatute ==
    ASSUME ShippedTables, NEW n, NEW t \in Instants, ZoneKnown(n)
    PROVE  InWindow(n, t) <=> StatuteAllows(n.area, t)
  <1> DEFINE a == n.area
             z == ResolvePhone(n).timezone
             h == UtcHours(a)
             dst == IF DaylightSaving(z, t) THEN 1 ELSE 0
             summer == IF Summer(t) /\ StateOf(a) \notin NoDstStates THEN 1 ELSE 0
             open == 8 * 3600
             length == 3600 * HoursOpen(a)
  <1>1. t \in Nat
    BY TablesAssumption
  <1>2. /\ StandardHours[z] = h
        /\ z \in ObservesDst <=> StateOf(a) \notin NoDstStates
    BY HoursOfState DEF ShippedTables
  <1>3. h \in Int /\ dst \in {0, 1} /\ summer \in {0, 1}
    BY UtcHoursRange
  <1>4. length \in Nat /\ open \in Nat /\ open + length <= DaySeconds
        /\ length <= 13 * 3600
    BY DEF HoursOpen, DaySeconds
  <1>5. LocalTime(n, t) = (t + 3600 * (h + dst)) % DaySeconds
    BY LocalTimeOf
  <1>6. InWindow(n, t) <=>
           /\ open <= (t + 3600 * (h + dst)) % DaySeconds
           /\ (t + 3600 * (h + dst)) % DaySeconds < open + length
    <2>1. /\ StateRules[RuleState(n)].start_time = open
          /\ StateRules[RuleState(n)].end_time = open + length
      <3>1. HoursOpen(a) \in {12, 13}
        BY DEF HoursOpen
      <3>. QED
        BY <3>1, RuleHours
    <2> HIDE DEF dst, h, open, length
    <2>. QED
      BY <1>5, <2>1 DEF InWindow
  <1>7. StatuteAllows(a, t) <=>
           (t + 3600 * (h + summer) - open) % DaySeconds < length
    <2>1. OpensUtc(a, t) = 8 - h - summer
      BY DEF OpensUtc
    <2>2. t - 3600 * (8 - h - summer) = t + 3600 * (h + summer) - open
      BY <1>1, <1>3
    <2>. QED
      BY <2>1, <2>2 DEF StatuteAllows, SecondsOpen
  <1> HIDE DEF a, z, h, dst, summer, open, length
  <1>8. CASE dst = summer
    <2>1. t + 3600 * (h + dst) \in Int
      BY <1>1, <1>3
    <2>2. t + 3600 * (h + summer) - open = (t + 3600 * (h + dst)) - open
      BY <1>1, <1>3, <1>4, <1>8
    <2> DEFINE x == t + 3600 * (h + dst)
    <2> HIDE DEF x
    <2>3. (open <= x % DaySeconds /\ x % DaySeconds < open + length)
             <=> (x - open) % DaySeconds < length
      BY <1>4, <2>1, SinceOpening DEF x
    <2>. QED
      BY <1>6, <1>7, <2>2, <2>3 DEF a, x
  <1>9. CASE dst # summer
    <2>1. z \in ObservesDst
      BY <1>2, <1>9 DEF dst, summer, DaylightSaving
    <2>2. h \in {-5, -6, -7, -8, -9}
      <3>1. z \in Zones
        BY HoursOfState DEF ShippedTables, z
      <3>. QED
        BY <1>2, <2>1, <3>1 DEF ObservesDst, StandardHours
    <2>3. /\ dst = 1 <=> /\ t >= At(SpringForward, 2 - h, 0, 0)
                         /\ t <  At(FallBack, 1 - h, 0, 0)
          /\ summer = 1 <=> Summer(t)
      BY <1>2, <2>1 DEF dst, summer, DaylightSaving
    <2>4. /\ (t + 3600 * (h + dst)) % DaySeconds < 8 * 3600
          /\ (t + 3600 * (h + summer) - 8 * 3600) % DaySeconds >= 18 * 3600
      BY <1>1, <1>3, <1>9, <2>2, <2>3, NightOfChange
    <2>5. /\ (t + 3600 * (h + dst)) % DaySeconds \in Int
          /\ (t + 3600 * (h + summer) - 8 * 3600) % DaySeconds \in Int
      BY <1>1, <1>3 DEF DaySeconds
    <2>6. ~(open <= (t + 3600 * (h + dst)) % DaySeconds)
      BY <2>4, <2>5 DEF open
    <2>7. ~((t + 3600 * (h + summer) - open) % DaySeconds < length)
      BY <1>4, <2>4, <2>5 DEF open
    <2>. QED
      BY <1>6, <1>7, <2>6, <2>7 DEF a
  <1>. QED
    BY <1>8, <1>9

-----------------------------------------------------------------------------
\* With the tables it ships, _check_time_window keeps the statute's hours: at
\* every second, the nights the clocks change included, and for every number
\* whose zone the host knows, no call is allowed outside the window of its
\* state and none refused for the window inside it.
THEOREM StatuteKept ==
    ASSUME ShippedTables
    PROVE  Spec => []MatchesStatuteTable
  <1>1. IInv /\ DecisionInv => MatchesStatuteTable
    <2> SUFFICES ASSUME IInv, DecisionInv, NEW r \in Requests,
                        answer[r] # NoAnswer,
                        ZoneKnown(payload[r].destination_number)
                 PROVE  LET p == payload[r]
                            inside == StatuteAllows(p.destination_number.area,
                                                    p.timestamp)
                        IN  /\ answer[r] = Allow => inside
                            /\ answer[r].block_reason = STATE_WINDOW => ~inside
      BY DEF MatchesStatuteTable
    <2> DEFINE p == payload[r]
               n == p.destination_number
    <2>1. p.timestamp \in Instants
      BY DialCheckAssumption DEF DecisionInv, AnswersInputs, DialIngestion
    <2>2. InWindow(n, p.timestamp) <=> StatuteAllows(n.area, p.timestamp)
      BY <2>1, WindowIsStatute
    <2>r. RuleState(n) \in DOMAIN StateRules
      BY RuleExists
    <2>3. WindowOf(p) = IF InWindow(n, p.timestamp) THEN Passed ELSE STATE_WINDOW
      BY <2>r DEF WindowOf, CheckTimeWindow
    <2>4. Passed # STATE_WINDOW
      BY DEF Passed, STATE_WINDOW
    <2>5. answer[r] = Allow => WindowOf(p) = Passed
      BY DEF IInv, VerdictInv, AllowIsCompliant
    <2>6. answer[r].block_reason = STATE_WINDOW => WindowOf(p) = STATE_WINDOW
      <3> SUFFICES ASSUME answer[r].block_reason = STATE_WINDOW
                   PROVE  WindowOf(p) = STATE_WINDOW
        OBVIOUS
      <3>1. answer[r] \in Decisions
        BY DEF IInv, LedgerInv, TypeOK, Answers
      <3>2. answer[r] # Allow
        BY NoReasonAssumption DEF Allow, BlockReasons
      <3>3. answer[r].decision = "BLOCK"
        BY <3>1, <3>2 DEF Decisions, Block
      <3>. QED
        BY <3>3 DEF DecisionInv, BlockIsJustified
    <2>. QED
      BY <2>2, <2>3, <2>4, <2>5, <2>6
  <1>. QED
    BY <1>1, Invariant, DecisionInvariant, PTL

=============================================================================
