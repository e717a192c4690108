--------------------------- MODULE ConversionsProofs ---------------------------
(***************************************************************************)
(* Proofs about the conversions: flags and settings for every set of       *)
(* repositories and architectures, metas, requests and builds for members  *)
(* with any value, and all of them for lists of every length.  An object   *)
(* that is put together from parts, or whose members get other names, is   *)
(* looked at member by member: Gets says which member a new object has, of *)
(* which one of the old object, and SameObject that objects that agree on  *)
(* all of them are the same.                                               *)
(***************************************************************************)
EXTENDS Conversions, FiniteSetTheorems, SequenceTheorems, TLAPS

\* A list has no element without attributes after it was read.
Plainly == {list \in Lists : list[Bare] = 0}

LEMMA BareIsSwitch == Bare \in Switches
BY DEF Bare, Switches

-----------------------------------------------------------------------------
(* Reading and writing a flag                                              *)

LEMMA FlagsHaveLists ==
  ASSUME NEW api \in FlagApis
  PROVE  /\ api.enable \in Lists /\ api.disable \in Lists
         /\ api = FlagApi(api.enable, api.disable)
BY DEF FlagApis, FlagApi

\* A list is written with the default as it was read, but for how often it was said.
LEMMA DefaultIsKept ==
  ASSUME NEW list \in Lists, NEW said \in BOOLEAN, said <=> list[Bare] > 0
  PROVE  WithDefault([list EXCEPT ![Bare] = 0], said) = DefaultOnce(list)
<1>1. [list EXCEPT ![Bare] = 0] \in Lists /\ [list EXCEPT ![Bare] = 0][Bare] = 0
  BY BareIsSwitch DEF Lists
<1>2. [list EXCEPT ![Bare] = 0][Bare] + 1 = 1
  BY <1>1
<1>3. CASE said
  <2>1. WithDefault([list EXCEPT ![Bare] = 0], said)
          = [[list EXCEPT ![Bare] = 0] EXCEPT ![Bare] = 1]
    BY <1>2, <1>3 DEF WithDefault
  <2>2. DefaultOnce(list) = [list EXCEPT ![Bare] = 1]
    BY <1>3 DEF DefaultOnce
  <2> QED
    BY <2>1, <2>2
<1>4. CASE ~said
  <2>1. WithDefault([list EXCEPT ![Bare] = 0], said) = [list EXCEPT ![Bare] = 0]
    BY <1>1, <1>4 DEF WithDefault, Lists
  <2>2. DefaultOnce(list) = [list EXCEPT ![Bare] = 0]
    BY <1>4 DEF DefaultOnce
  <2> QED
    BY <2>1, <2>2
<1> QED
  BY <1>3, <1>4

\* A flag that was read and is written again is as the server sent it, a default
\* that was said more often as one, unless it was both enabled and disabled by
\* default.
LEMMA FlagIsKept ==
  ASSUME NEW api \in FlagApis
  PROVE  FlagSurvives(api)
<1> SUFFICES ASSUME ~Contradictory(api)
             PROVE  FlagToApi(FlagFromApi(api))
                      = FlagApi(DefaultOnce(api.enable), DefaultOnce(api.disable))
  BY DEF FlagSurvives
<1> DEFINE enable == api.enable
           disable == api.disable
           on == enable[Bare] > 0
           off == disable[Bare] > 0
           default == IF on THEN "on" ELSE IF off THEN "off" ELSE "unset"
<1>1. enable \in Lists /\ disable \in Lists
  BY FlagsHaveLists
<1>2. ~(on /\ off) /\ on \in BOOLEAN /\ off \in BOOLEAN
  BY BareIsSwitch DEF Contradictory, In
<1>3. FlagFromApi(api) = Flag(default, [enable EXCEPT ![Bare] = 0], [disable EXCEPT ![Bare] = 0])
  BY BareIsSwitch DEF FlagFromApi, In
<1>4. /\ (default = "on") \in BOOLEAN /\ ((default = "on") <=> on)
      /\ (default = "off") \in BOOLEAN /\ ((default = "off") <=> off)
  BY <1>2
<1>5. /\ WithDefault([enable EXCEPT ![Bare] = 0], default = "on") = DefaultOnce(enable)
      /\ WithDefault([disable EXCEPT ![Bare] = 0], default = "off") = DefaultOnce(disable)
  <2> HIDE DEF default, enable, disable
  <2> QED
    BY <1>1, <1>4, DefaultIsKept
<1> HIDE DEF default, on, off, enable, disable
<1>6. FlagToApi(FlagFromApi(api)) = FlagApi(DefaultOnce(enable), DefaultOnce(disable))
  BY <1>3, <1>5 DEF FlagToApi, Flag
<1> QED
  BY <1>6 DEF enable, disable

\* What is read has no element that stands for the default.
LEMMA ReadLists ==
  ASSUME NEW api \in FlagApis
  PROVE  LET flag == FlagFromApi(api) IN
         /\ flag.enable \in Plainly /\ flag.disable \in Plainly
         /\ flag.defaultValue \in Values
<1>1. api.enable \in Lists /\ api.disable \in Lists
  BY FlagsHaveLists
<1>2. \A list \in Lists : [list EXCEPT ![Bare] = 0] \in Plainly
  BY BareIsSwitch DEF Lists, Plainly
<1> QED
  BY <1>1, <1>2 DEF FlagFromApi, Flag, Values, Given

\* A flag without such elements is read as it was before it was written.
LEMMA ListsAreKept ==
  ASSUME NEW default \in Values, NEW enable \in Plainly, NEW disable \in Plainly
  PROVE  FlagFromApi(FlagToApi(Flag(default, enable, disable)))
           = Flag(default, enable, disable)
<1> DEFINE on == WithDefault(enable, default = "on")
           off == WithDefault(disable, default = "off")
<1>1. FlagToApi(Flag(default, enable, disable)) = FlagApi(on, off)
  BY DEF FlagToApi, Flag
<1>2. ASSUME NEW list \in Plainly, NEW said \in BOOLEAN
      PROVE  /\ [WithDefault(list, said) EXCEPT ![Bare] = 0] = list
             /\ Bare \in In(WithDefault(list, said)) <=> said
  <2>1. WithDefault(list, said) = [list EXCEPT ![Bare] = IF said THEN 1 ELSE 0]
    BY BareIsSwitch DEF WithDefault, Plainly, Lists
  <2>2. [[list EXCEPT ![Bare] = IF said THEN 1 ELSE 0] EXCEPT ![Bare] = 0] = list
    BY BareIsSwitch DEF Plainly, Lists
  <2>3. Bare \in In([list EXCEPT ![Bare] = IF said THEN 1 ELSE 0]) <=> said
    BY BareIsSwitch DEF Plainly, Lists, In
  <2> QED
    BY <2>1, <2>2, <2>3
<1>3. /\ [on EXCEPT ![Bare] = 0] = enable /\ (Bare \in In(on) <=> default = "on")
      /\ [off EXCEPT ![Bare] = 0] = disable /\ (Bare \in In(off) <=> default = "off")
  <2>1. (default = "on") \in BOOLEAN /\ (default = "off") \in BOOLEAN
    OBVIOUS
  <2> QED
    BY <1>2, <2>1
<1>4. default \in {"on", "off", "unset"}
  BY DEF Values, Given
<1> HIDE DEF on, off
<1>5. (IF Bare \in In(on) THEN "on" ELSE IF Bare \in In(off) THEN "off" ELSE "unset") = default
  BY <1>3, <1>4
<1> QED
  BY <1>1, <1>3, <1>5 DEF FlagFromApi, FlagApi, Flag

-----------------------------------------------------------------------------
(* Settings                                                                *)

LEMMA ValueOfOne ==
  ASSUME NEW value, NEW a
  PROVE  ValueAt(One(value), a) = value
BY DEF ValueAt, One

LEMMA ValueOfPerArch ==
  ASSUME NEW values, NEW a
  PROVE  ValueAt(PerArch(values), a) = values[a]
BY DEF ValueAt, PerArch

\* A setting that is made simpler says the same for each architecture.
LEMMA SimplifyKeeps ==
  ASSUME NEW values, NEW a \in DOMAIN values
  PROVE  ValueAt(Simplify(values), a) = values[a]
<1>1. CASE \A b, c \in DOMAIN values : values[b] = values[c]
  <2> DEFINE some == CHOOSE b \in DOMAIN values : TRUE
  <2>1. some \in DOMAIN values
    OBVIOUS
  <2> HIDE DEF some
  <2>2. values[some] = values[a]
    BY <1>1, <2>1
  <2>3. Simplify(values) = One(values[some])
    BY <1>1 DEF Simplify, some
  <2> QED
    BY <2>2, <2>3, ValueOfOne
<1>2. CASE ~(\A b, c \in DOMAIN values : values[b] = values[c])
  <2>1. Simplify(values) = PerArch(values)
    BY <1>2 DEF Simplify
  <2> QED
    BY <2>1, ValueOfPerArch
<1> QED
  BY <1>1, <1>2

\* The form of a setting: one value, or one for each architecture.
IsSetting(setting) ==
  \/ \E value : setting = One(value)
  \/ \E values : DOMAIN values = Architectures /\ setting = PerArch(values)

LEMMA SimplifyIsSetting ==
  ASSUME NEW values, DOMAIN values = Architectures
  PROVE  IsSetting(Simplify(values))
BY DEF Simplify, IsSetting

LEMMA FlagGivesSetting ==
  ASSUME NEW repository, NEW flag, NEW default
  PROVE  IsSetting(SettingFromFlag(repository, flag, default))
<1> DEFINE global == IF flag.defaultValue \in Given THEN flag.defaultValue ELSE default
           none == /\ Matching(flag.enable, repository) = {}
                   /\ Matching(flag.disable, repository) = {}
           values == [a \in Architectures |-> Applied(repository, flag, a, global)]
<1>1. SettingFromFlag(repository, flag, default)
        = IF none THEN One(global) ELSE Simplify(values)
  BY DEF SettingFromFlag
<1>2. DOMAIN values = Architectures
  OBVIOUS
<1> HIDE DEF global, none, values
<1>3. IsSetting(One(global))
  BY DEF IsSetting
<1>4. IsSetting(Simplify(values))
  BY <1>2, SimplifyIsSetting
<1> QED
  BY <1>1, <1>3, <1>4

\* The default stands for what is not set, for each architecture.
LEMMA DefaultIsApplied ==
  ASSUME NEW setting, IsSetting(setting), NEW default, NEW a \in Architectures
  PROVE  ValueAt(ApplyDefault(setting, default), a) = Or(ValueAt(setting, a), default)
<1>1. CASE \E value : setting = One(value)
  BY <1>1 DEF ApplyDefault, One, ValueAt
<1>2. CASE \E values : DOMAIN values = Architectures /\ setting = PerArch(values)
  <2>1. PICK values : DOMAIN values = Architectures /\ setting = PerArch(values)
    BY <1>2
  <2> DEFINE applied == [b \in DOMAIN values |-> Or(values[b], default)]
  <2>2. ApplyDefault(setting, default) = PerArch(applied)
    BY <2>1 DEF ApplyDefault, PerArch
  <2>3. applied[a] = Or(values[a], default)
    BY <2>1
  <2> HIDE DEF applied
  <2> QED
    BY <2>1, <2>2, <2>3, ValueOfPerArch
<1> QED
  BY <1>1, <1>2 DEF IsSetting

\* What a flag says for one architecture.
LEMMA ValueFromFlag ==
  ASSUME NEW repository, NEW flag, NEW default, NEW a \in Architectures
  PROVE  LET global == IF flag.defaultValue \in Given THEN flag.defaultValue ELSE default
         IN ValueAt(SettingFromFlag(repository, flag, default), a)
              = IF Matching(flag.enable, repository) = {}
                   /\ Matching(flag.disable, repository) = {}
                THEN global ELSE Applied(repository, flag, a, global)
<1> DEFINE global == IF flag.defaultValue \in Given THEN flag.defaultValue ELSE default
           none == /\ Matching(flag.enable, repository) = {}
                   /\ Matching(flag.disable, repository) = {}
           values == [b \in Architectures |-> Applied(repository, flag, b, global)]
<1>1. SettingFromFlag(repository, flag, default)
        = IF none THEN One(global) ELSE Simplify(values)
  BY DEF SettingFromFlag
<1>2. DOMAIN values = Architectures /\ values[a] = Applied(repository, flag, a, global)
  OBVIOUS
<1> HIDE DEF global, none, values
<1>3. ValueAt(One(global), a) = global
  BY ValueOfOne
<1>4. ValueAt(Simplify(values), a) = values[a]
  BY <1>2, SimplifyKeeps
<1>5. ValueAt(SettingFromFlag(repository, flag, default), a)
        = IF none THEN global ELSE Applied(repository, flag, a, global)
  BY <1>1, <1>2, <1>3, <1>4
<1> QED
  BY <1>5 DEF global, none

-----------------------------------------------------------------------------
(* The elements that match a repository                                    *)

\* An element is heeded exactly if it is the whole of what matches.
LEMMA WholeIsHeeded ==
  ASSUME NEW list \in Lists, NEW repository
  PROVE  Whole(list, repository) <=> Heeded(list, repository)
<1>1. ASSUME NEW s \in Matching(list, repository)
      PROVE  s \in Switches /\ list[s] \in Nat /\ list[s] > 0
  BY DEF Matching, In, Lists
<1>2. ASSUME Heeded(list, repository) PROVE Whole(list, repository)
  <2>1. PICK s \in Matching(list, repository) : s.arch = "any"
    BY <1>2 DEF Heeded, Says
  <2>2. Matching(list, repository) = {s} /\ list[s] = 1
    BY <1>1, <1>2, <2>1 DEF Heeded
  <2> QED
    BY <1>1, <2>1, <2>2 DEF Whole
<1>3. ASSUME Whole(list, repository) PROVE Heeded(list, repository)
  BY <1>3 DEF Whole, Heeded, Says
<1> QED
  BY <1>2, <1>3

\* An element with an arch goes before one without, disabled before enabled, and
\* both before the defaults.
LEMMA RuleIsFollowed ==
  ASSUME NEW repository, NEW flag, NEW default,
         flag.enable \in Lists, flag.disable \in Lists
  PROVE  FollowsRule(repository, flag, default)
<1> SUFFICES ASSUME NEW a \in Architectures
             PROVE  ValueAt(SettingFromFlag(repository, flag, default), a)
                      = Rule(repository, a, flag, default)
  BY DEF FollowsRule
<1> DEFINE global == IF flag.defaultValue \in Given THEN flag.defaultValue ELSE default
           none == /\ Matching(flag.enable, repository) = {}
                   /\ Matching(flag.disable, repository) = {}
           OnSays(b) == Says(flag.enable, repository, b)
           OffSays(b) == Says(flag.disable, repository, b)
           onHeeded == Heeded(flag.enable, repository)
           offHeeded == Heeded(flag.disable, repository)
<1>1. ValueAt(SettingFromFlag(repository, flag, default), a)
        = IF none THEN global ELSE Applied(repository, flag, a, global)
  BY ValueFromFlag
<1>2. Or(IF flag.defaultValue \in Given THEN flag.defaultValue ELSE "unset", default) = global
  BY DEF Or, Given
<1>3. Rule(repository, a, flag, default)
        = IF OffSays(a) THEN "off" ELSE IF OnSays(a) THEN "on"
          ELSE IF offHeeded THEN "off" ELSE IF onHeeded THEN "on" ELSE global
  <2>1. Rule(repository, a, flag, default)
          = CASE OffSays(a) -> "off"
              [] ~OffSays(a) /\ OnSays(a) -> "on"
              [] OTHER -> IF offHeeded THEN "off" ELSE IF onHeeded THEN "on" ELSE global
    BY <1>2 DEF Rule
  <2> HIDE DEF OnSays, OffSays, onHeeded, offHeeded, global
  <2> QED
    BY <2>1
<1>4. Applied(repository, flag, a, global)
        = IF OffSays(a) THEN "off" ELSE IF OnSays(a) THEN "on"
          ELSE IF offHeeded THEN "off" ELSE IF onHeeded THEN "on" ELSE global
  BY WholeIsHeeded DEF Applied
<1>5. none => ~OnSays(a) /\ ~OffSays(a) /\ ~onHeeded /\ ~offHeeded
  BY DEF Says, Heeded
<1> HIDE DEF none, OnSays, OffSays, onHeeded, offHeeded, global
<1> QED
  BY <1>1, <1>3, <1>4, <1>5

-----------------------------------------------------------------------------
(* Settings that are made into a flag                                      *)

LEMMA WantedIsList ==
  ASSUME NEW settings, DOMAIN settings \in SUBSET Repositories, NEW value
  PROVE  Wanted(settings, value) \in Plainly
<1>1. ~Wants(settings, value, Bare)
  BY FlagsAssumption DEF Bare, Switch, Wants
<1> QED
  BY <1>1, BareIsSwitch DEF Wanted, Plainly, Lists

LEMMA NoSwitchesIsList == NoSwitches \in Plainly
BY BareIsSwitch DEF NoSwitches, Plainly, Lists

\* Each wanted element is there once, for its own repository.
LEMMA WantedMatches ==
  ASSUME NEW settings, DOMAIN settings \in SUBSET Repositories, NEW r \in DOMAIN settings,
         NEW value, NEW s
  PROVE  /\ s \in Matching(Wanted(settings, value), r)
              <=> s \in Switches /\ s.repository = r /\ Wants(settings, value, s)
         /\ s \in Matching(Wanted(settings, value), r) => Wanted(settings, value)[s] = 1
<1>1. \A t \in Switches :
        Wanted(settings, value)[t] = IF Wants(settings, value, t) THEN 1 ELSE 0
  BY DEF Wanted
<1>2. Wants(settings, value, s) => s.repository \in Repositories
  BY DEF Wants
<1>3. s \in In(Wanted(settings, value)) <=> s \in Switches /\ Wants(settings, value, s)
  BY <1>1 DEF In
<1> QED
  BY <1>1, <1>2, <1>3, FlagsAssumption DEF Matching, In

\* What is wanted for a repository with one value: the element for all of it.
LEMMA WantedForOne ==
  ASSUME NEW settings, DOMAIN settings \in SUBSET Repositories, NEW r \in DOMAIN settings,
         NEW value, NEW v, settings[r] = One(v)
  PROVE  /\ Matching(Wanted(settings, value), r)
              = IF v = value THEN {Switch(r, "any")} ELSE {}
         /\ Whole(Wanted(settings, value), r) <=> v = value
<1>1. settings[r].all /\ settings[r].value = v
  BY DEF One
<1>2. r \in Repositories /\ r # "any"
  BY FlagsAssumption
<1>3. Switch(r, "any") \in Switches
  BY <1>2 DEF Switches
<1>4. \A s \in Switches : s.repository = r /\ s.arch = "any" => s = Switch(r, "any")
  BY DEF Switches, Switch
<1>5. Switch(r, "any").repository = r /\ Switch(r, "any").arch = "any"
  BY DEF Switch
<1>6. \A s \in Switches : s.repository = r =>
        (Wants(settings, value, s) <=> s.arch = "any" /\ v = value)
  BY <1>1 DEF Wants
<1>7. Matching(Wanted(settings, value), r) = IF v = value THEN {Switch(r, "any")} ELSE {}
  BY <1>3, <1>4, <1>5, <1>6, WantedMatches
<1>8. v = value => Wanted(settings, value)[Switch(r, "any")] = 1
  BY <1>7, WantedMatches
<1> QED
  BY <1>3, <1>5, <1>7, <1>8 DEF Whole

\* For a repository with a value for each architecture: those that have this one.
LEMMA WantedForEach ==
  ASSUME NEW settings, DOMAIN settings \in SUBSET Repositories, NEW r \in DOMAIN settings,
         NEW value, NEW values \in [Architectures -> Values], settings[r] = PerArch(values)
  PROVE  /\ \A a \in Architectures :
              Says(Wanted(settings, value), r, a) <=> values[a] = value
         /\ \A s \in Matching(Wanted(settings, value), r) : s.arch # "any"
<1>1. ~settings[r].all /\ settings[r].values = values
  BY DEF PerArch
<1>2. r \in Repositories /\ r # "any"
  BY FlagsAssumption
<1>3. \A s : s \in Matching(Wanted(settings, value), r)
             <=> s \in Switches /\ s.repository = r /\ Wants(settings, value, s)
  BY WantedMatches
<1>4. \A s : s.repository = r =>
        (Wants(settings, value, s) <=> s.arch # "any" /\ values[s.arch] = value)
  BY <1>1 DEF Wants
<1>5. ASSUME NEW a \in Architectures
      PROVE  Says(Wanted(settings, value), r, a) <=> values[a] = value
  <2>1. Switch(r, a) \in Switches /\ Switch(r, a).repository = r /\ Switch(r, a).arch = a
    BY <1>2 DEF Switches, Switch
  <2>2. a # "any"
    BY FlagsAssumption
  <2> QED
    BY <1>3, <1>4, <2>1, <2>2 DEF Says
<1> QED
  BY <1>3, <1>4, <1>5

\* The flag that settings are made into.
LEMMA FlagOfSettings ==
  ASSUME NEW settings, DOMAIN settings \in SUBSET Repositories, DOMAIN settings # {},
         NEW default \in Values
  PROVE  LET on == IF default = "on" THEN NoSwitches ELSE Wanted(settings, "on")
             off == IF default = "off" THEN NoSwitches ELSE Wanted(settings, "off")
         IN FlagFromApi(FlagToApi(SettingToFlag(settings, default))) = Flag(default, on, off)
<1> DEFINE on == IF default = "on" THEN NoSwitches ELSE Wanted(settings, "on")
           off == IF default = "off" THEN NoSwitches ELSE Wanted(settings, "off")
<1>1. SettingToFlag(settings, default) = Flag(default, on, off)
  BY DEF SettingToFlag
<1>2. on \in Plainly /\ off \in Plainly
  BY WantedIsList, NoSwitchesIsList
<1> HIDE DEF on, off
<1>3. FlagFromApi(FlagToApi(SettingToFlag(settings, default))) = Flag(default, on, off)
  BY <1>1, <1>2, ListsAreKept
<1> QED
  BY <1>3 DEF on, off

\* What a caller sets is read again, the default where nothing was set.
LEMMA SettingsAreKept ==
  ASSUME NEW settings \in SettingsOfSome, NEW default \in Values
  PROVE  SettingsSurvive(settings, default)
<1> DEFINE flag == FlagFromApi(FlagToApi(SettingToFlag(settings, default)))
<1> SUFFICES ASSUME NEW r \in DOMAIN settings, NEW a \in Architectures
             PROVE  ValueAt(SettingFromFlag(r, flag, default), a)
                      = Or(ValueAt(settings[r], a), default)
  BY DEF SettingsSurvive
<1>1. PICK names \in SUBSET Repositories : settings \in [names -> Settings]
  BY DEF SettingsOfSome
<1>2. /\ DOMAIN settings \in SUBSET Repositories /\ DOMAIN settings # {}
      /\ settings[r] \in Settings
  BY <1>1
<1> DEFINE on == IF default = "on" THEN NoSwitches ELSE Wanted(settings, "on")
           off == IF default = "off" THEN NoSwitches ELSE Wanted(settings, "off")
<1>3. flag = Flag(default, on, off)
  BY <1>2, FlagOfSettings
<1>4. flag.defaultValue = default /\ flag.enable = on /\ flag.disable = off
  BY <1>3 DEF Flag
<1> HIDE DEF flag
<1> DEFINE none == Matching(on, r) = {} /\ Matching(off, r) = {}
<1>5. ValueAt(SettingFromFlag(r, flag, default), a)
        = IF none THEN default ELSE Applied(r, flag, a, default)
  <2> DEFINE global == IF flag.defaultValue \in Given THEN flag.defaultValue ELSE default
  <2>1. global = default
    BY <1>4
  <2> HIDE DEF global
  <2>2. ValueAt(SettingFromFlag(r, flag, default), a)
          = IF Matching(flag.enable, r) = {} /\ Matching(flag.disable, r) = {}
            THEN global ELSE Applied(r, flag, a, global)
    BY ValueFromFlag DEF global
  <2> QED
    BY <1>4, <2>1, <2>2
<1>6. Applied(r, flag, a, default)
        = IF Says(off, r, a) THEN "off" ELSE IF Says(on, r, a) THEN "on"
          ELSE IF Whole(off, r) THEN "off" ELSE IF Whole(on, r) THEN "on" ELSE default
  <2> HIDE DEF on, off
  <2> QED
    BY <1>4 DEF Applied
<1>7. Matching(NoSwitches, r) = {} /\ ~Says(NoSwitches, r, a) /\ ~Whole(NoSwitches, r)
  BY DEF Matching, In, NoSwitches, Says, Whole
<1>8. default \in {"on", "off", "unset"}
  BY DEF Values, Given
<1>9. CASE \E v \in Values : settings[r] = One(v)
  <2>1. PICK v \in Values : settings[r] = One(v)
    BY <1>9
  <2> DEFINE all == Switch(r, "any")
  <2>2. \A value \in {"on", "off"} :
          /\ Matching(Wanted(settings, value), r) = IF v = value THEN {all} ELSE {}
          /\ Whole(Wanted(settings, value), r) <=> v = value
    BY <1>2, <2>1, WantedForOne
  <2>3. all.arch # a
    BY FlagsAssumption DEF Switch
  <2> HIDE DEF all
  <2>4. /\ Matching(on, r) = {} <=> ~(v = "on" /\ default # "on")
        /\ ~Says(on, r, a)
        /\ Whole(on, r) <=> v = "on" /\ default # "on"
    BY <1>7, <2>2, <2>3 DEF Says
  <2>5. /\ Matching(off, r) = {} <=> ~(v = "off" /\ default # "off")
        /\ ~Says(off, r, a)
        /\ Whole(off, r) <=> v = "off" /\ default # "off"
    BY <1>7, <2>2, <2>3 DEF Says
  <2>6. ValueAt(settings[r], a) = v /\ v \in {"on", "off", "unset"}
    BY <2>1, ValueOfOne DEF Values, Given
  <2> HIDE DEF on, off
  <2> QED
    BY <1>5, <1>6, <1>8, <2>4, <2>5, <2>6 DEF Or
<1>10. CASE \E values \in [Architectures -> Values] : settings[r] = PerArch(values)
  <2>1. PICK values \in [Architectures -> Values] : settings[r] = PerArch(values)
    BY <1>10
  <2>2. \A value \in {"on", "off"} :
          /\ Says(Wanted(settings, value), r, a) <=> values[a] = value
          /\ \A s \in Matching(Wanted(settings, value), r) : s.arch # "any"
    BY <1>2, <2>1, WantedForEach
  <2>3. \A value \in {"on", "off"} : ~Whole(Wanted(settings, value), r)
    BY <2>2 DEF Whole
  <2>4. (Says(on, r, a) <=> values[a] = "on" /\ default # "on") /\ ~Whole(on, r)
    BY <1>7, <2>2, <2>3
  <2>5. (Says(off, r, a) <=> values[a] = "off" /\ default # "off") /\ ~Whole(off, r)
    BY <1>7, <2>2, <2>3
  <2>6. ValueAt(settings[r], a) = values[a] /\ values[a] \in {"on", "off", "unset"}
    BY <2>1, ValueOfPerArch DEF Values, Given
  <2>7. none => ~Says(on, r, a) /\ ~Says(off, r, a)
    BY DEF Says
  <2> HIDE DEF on, off, none
  <2> QED
    BY <1>5, <1>6, <1>8, <2>4, <2>5, <2>6, <2>7 DEF Or
<1> QED
  BY <1>2, <1>9, <1>10 DEF Settings

-----------------------------------------------------------------------------
(* A package's settings over those of its project                          *)

LEMMA MergedValue ==
  ASSUME NEW proj, IsSetting(proj), NEW pkg, IsSetting(pkg), NEW default,
         NEW a \in Architectures
  PROVE  ValueAt(MergeFlags(proj, pkg, default), a)
           = Or(ValueAt(pkg, a), Or(ValueAt(proj, a), default))
<1>1. CASE proj = One("unset")
  <2>1. ValueAt(proj, a) = "unset"
    BY <1>1, ValueOfOne
  <2>2. MergeFlags(proj, pkg, default) = ApplyDefault(pkg, default)
    BY <1>1 DEF MergeFlags
  <2> QED
    BY <2>1, <2>2, DefaultIsApplied DEF Or
<1>2. CASE proj # One("unset") /\ pkg = One("unset")
  <2>1. ValueAt(pkg, a) = "unset"
    BY <1>2, ValueOfOne
  <2>2. MergeFlags(proj, pkg, default) = ApplyDefault(proj, default)
    BY <1>2 DEF MergeFlags
  <2> QED
    BY <2>1, <2>2, DefaultIsApplied DEF Or
<1>3. CASE proj # One("unset") /\ pkg # One("unset") /\ \E value : pkg = One(value)
  <2>1. PICK value : pkg = One(value)
    BY <1>3
  <2>2. value # "unset" /\ pkg.all
    BY <1>3, <2>1 DEF One
  <2>3. MergeFlags(proj, pkg, default) = pkg
    BY <1>3, <2>2 DEF MergeFlags
  <2>4. ValueAt(pkg, a) = value
    BY <2>1, ValueOfOne
  <2> QED
    BY <2>2, <2>3, <2>4 DEF Or
<1>4. CASE /\ proj # One("unset") /\ pkg # One("unset")
           /\ \E values : DOMAIN values = Architectures /\ pkg = PerArch(values)
  <2>1. PICK values : DOMAIN values = Architectures /\ pkg = PerArch(values)
    BY <1>4
  <2>2. ~pkg.all /\ pkg.values = values
    BY <2>1 DEF PerArch
  <2> DEFINE merged == [b \in Architectures |->
                          Or(pkg.values[b], Or(ValueAt(proj, b), default))]
  <2>3. MergeFlags(proj, pkg, default) = ApplyDefault(Simplify(merged), default)
    BY <1>4, <2>2 DEF MergeFlags
  <2>4. DOMAIN merged = Architectures
    OBVIOUS
  <2>5. merged[a] = Or(values[a], Or(ValueAt(proj, a), default))
    BY <2>2
  <2> HIDE DEF merged
  <2>6. ValueAt(ApplyDefault(Simplify(merged), default), a) = Or(merged[a], default)
    BY <2>4, SimplifyIsSetting, SimplifyKeeps, DefaultIsApplied
  <2>7. Or(merged[a], default) = merged[a]
    BY <2>5 DEF Or
  <2>8. ValueAt(pkg, a) = values[a]
    BY <2>1, ValueOfPerArch
  <2> QED
    BY <2>3, <2>5, <2>6, <2>7, <2>8
<1> QED
  BY <1>1, <1>2, <1>3, <1>4 DEF IsSetting

LEMMA PackageIsFirst ==
  ASSUME NEW repository, NEW projFlag, NEW pkgFlag, NEW default, pkgFlag # NoMeta
  PROVE  PackageGoesFirst(repository, projFlag, pkgFlag, default)
<1> SUFFICES ASSUME NEW a \in Architectures
             PROVE  ValueAt(SettingFromMetas(repository, projFlag, pkgFlag, default), a)
                      = Or(ValueAt(SettingFromFlag(repository, pkgFlag, "unset"), a),
                           Or(ValueAt(SettingFromFlag(repository, projFlag, "unset"), a),
                              default))
  BY DEF PackageGoesFirst
<1> DEFINE proj == SettingFromFlag(repository, projFlag, "unset")
           pkg == SettingFromFlag(repository, pkgFlag, "unset")
<1>1. IsSetting(proj) /\ IsSetting(pkg)
  BY FlagGivesSetting
<1>2. SettingFromMetas(repository, projFlag, pkgFlag, default) = MergeFlags(proj, pkg, default)
  BY DEF SettingFromMetas
<1> HIDE DEF proj, pkg
<1>3. ValueAt(MergeFlags(proj, pkg, default), a)
        = Or(ValueAt(pkg, a), Or(ValueAt(proj, a), default))
  BY <1>1, MergedValue
<1> QED
  BY <1>2, <1>3 DEF proj, pkg

-----------------------------------------------------------------------------
(* Objects                                                                 *)

IsObject(obj) == obj = [m \in DOMAIN obj |-> obj[m]]

\* What the members of an object of a set are.
LEMMA Membered ==
  ASSUME NEW members, NEW required, NEW obj \in Objects(members, required)
  PROVE  /\ IsObject(obj)
         /\ DOMAIN obj \subseteq DOMAIN members /\ required \subseteq DOMAIN obj
         /\ \A m \in DOMAIN obj : obj[m] \in members[m]
<1>1. PICK names \in {n \in SUBSET DOMAIN members : required \subseteq n} :
        obj \in {o \in [names -> UNION {members[m] : m \in names}] :
                   \A m \in names : o[m] \in members[m]}
  BY DEF Objects
<1> QED
  BY <1>1 DEF IsObject

LEMMA OneMember ==
  ASSUME NEW m, NEW v
  PROVE  /\ IsObject(m :> v) /\ DOMAIN (m :> v) = {m} /\ (m :> v)[m] = v
  BY DEF :>, IsObject

LEMMA NoMember == IsObject(Empty) /\ DOMAIN Empty = {}
  BY DEF Empty, IsObject

\* Two objects with the same members are the same.
LEMMA SameMembers ==
  ASSUME NEW f, NEW g, IsObject(f), IsObject(g), DOMAIN f = DOMAIN g,
         \A m \in DOMAIN f : f[m] = g[m]
  PROVE  f = g
  BY DEF IsObject

OneToOne(names) == \A m, n \in DOMAIN names : names[m] = names[n] => m = n

\* What is taken from an object, if no two members get the same name.
LEMMA Taken ==
  ASSUME NEW obj, NEW names, OneToOne(names)
  PROVE  /\ IsObject(Take(obj, names))
         /\ DOMAIN Take(obj, names) = {names[m] : m \in DOMAIN obj \cap DOMAIN names}
         /\ \A m \in DOMAIN obj \cap DOMAIN names : Take(obj, names)[names[m]] = obj[m]
<1> DEFINE took == {names[m] : m \in DOMAIN obj \cap DOMAIN names}
           From(n) == CHOOSE m \in DOMAIN names : names[m] = n
<1>1. Take(obj, names) = [n \in took |-> obj[From(n)]]
  BY DEF Take
<1>2. ASSUME NEW m \in DOMAIN obj \cap DOMAIN names PROVE From(names[m]) = m
  BY DEF OneToOne
<1> HIDE DEF From
<1> QED
  BY <1>1, <1>2 DEF IsObject

\* The same if everything is taken.
Renamed(took, obj, names) ==
  /\ IsObject(took) /\ DOMAIN took = {names[m] : m \in DOMAIN obj}
  /\ \A m \in DOMAIN obj : took[names[m]] = obj[m]

LEMMA AllTaken ==
  ASSUME NEW obj, NEW names, OneToOne(names), \A m \in DOMAIN obj : m \in DOMAIN names
  PROVE  Renamed(Take(obj, names), obj, names)
<1>1. DOMAIN obj \cap DOMAIN names = DOMAIN obj
  OBVIOUS
<1>2. /\ IsObject(Take(obj, names))
      /\ DOMAIN Take(obj, names) = {names[m] : m \in DOMAIN obj \cap DOMAIN names}
      /\ \A m \in DOMAIN obj \cap DOMAIN names : Take(obj, names)[names[m]] = obj[m]
  BY Taken, Zenon
<1> QED
  BY <1>1, <1>2 DEF Renamed

\* Members under new names get their old ones back.
LEMMA TakenBack ==
  ASSUME NEW obj, NEW names, NEW back, IsObject(obj), OneToOne(names), OneToOne(back),
         \A m \in DOMAIN obj :
           m \in DOMAIN names /\ names[m] \in DOMAIN back /\ back[names[m]] = m
  PROVE  Take(Take(obj, names), back) = obj
<1> DEFINE took == Take(obj, names)
<1>1. Renamed(took, obj, names)
  BY AllTaken
<1> HIDE DEF took
<1>2. \A n \in DOMAIN took : n \in DOMAIN back
  BY <1>1 DEF Renamed
<1>3. Renamed(Take(took, back), took, back)
  BY <1>2, AllTaken
<1>4. DOMAIN Take(took, back) = DOMAIN obj
  BY <1>1, <1>3 DEF Renamed
<1>5. \A m \in DOMAIN obj : Take(took, back)[m] = obj[m]
  BY <1>1, <1>3 DEF Renamed
<1>6. Take(took, back) = obj
  BY <1>3, <1>4, <1>5, SameMembers DEF Renamed
<1> QED
  BY <1>6 DEF took

\* The new object has the member `to` if the other one has `from`, with that value.
Gets(new, to, obj, from, value) ==
  /\ to \in DOMAIN new <=> from \in DOMAIN obj
  /\ from \in DOMAIN obj => new[to] = value

\* A member that is taken gets its new name.
LEMMA OneTaken ==
  ASSUME NEW obj, NEW names, OneToOne(names)
  PROVE  /\ DOMAIN Take(obj, names) \subseteq {names[m] : m \in DOMAIN names}
         /\ \A m \in DOMAIN names : Gets(Take(obj, names), names[m], obj, m, obj[m])
<1>1. /\ IsObject(Take(obj, names))
      /\ DOMAIN Take(obj, names) = {names[m] : m \in DOMAIN obj \cap DOMAIN names}
      /\ \A m \in DOMAIN obj \cap DOMAIN names : Take(obj, names)[names[m]] = obj[m]
  BY Taken, Zenon
<1>2. ASSUME NEW m \in DOMAIN names, names[m] \in DOMAIN Take(obj, names)
      PROVE  m \in DOMAIN obj
  <2>1. PICK n \in DOMAIN obj \cap DOMAIN names : names[n] = names[m]
    BY <1>1, <1>2
  <2> QED
    BY <2>1 DEF OneToOne
<1> QED
  BY <1>1, <1>2 DEF Gets

\* What is taken from two objects that agree on it is the same.
LEMMA TakenAlike ==
  ASSUME NEW obj, NEW other, NEW names, OneToOne(names),
         \A m \in DOMAIN names :
           (m \in DOMAIN obj <=> m \in DOMAIN other) /\ (m \in DOMAIN obj => obj[m] = other[m])
  PROVE  Take(obj, names) = Take(other, names)
<1> DEFINE a == Take(obj, names)
           b == Take(other, names)
<1>1. /\ IsObject(a) /\ DOMAIN a \subseteq {names[m] : m \in DOMAIN names}
      /\ \A m \in DOMAIN names : Gets(a, names[m], obj, m, obj[m])
  BY OneTaken DEF Take, IsObject
<1>2. /\ IsObject(b) /\ DOMAIN b \subseteq {names[m] : m \in DOMAIN names}
      /\ \A m \in DOMAIN names : Gets(b, names[m], other, m, other[m])
  BY OneTaken DEF Take, IsObject
<1> HIDE DEF a, b
<1>3. \A m \in DOMAIN names : /\ names[m] \in DOMAIN a <=> names[m] \in DOMAIN b
                              /\ names[m] \in DOMAIN a => a[names[m]] = b[names[m]]
  BY <1>1, <1>2 DEF Gets
<1>4. DOMAIN a = DOMAIN b /\ \A n \in DOMAIN a : a[n] = b[n]
  BY <1>1, <1>2, <1>3
<1>5. a = b
  BY <1>1, <1>2, <1>4, SameMembers
<1> QED
  BY <1>5 DEF a, b

\* A converted member, or none.
LEMMA OneGot ==
  ASSUME NEW obj, NEW from, NEW to, NEW value
  PROVE  LET new == IF from \in DOMAIN obj THEN to :> value ELSE Empty IN
         DOMAIN new \subseteq {to} /\ Gets(new, to, obj, from, value)
  BY OneMember, NoMember DEF Gets

\* A converted list, or none.
ListIn(obj, from, to, value) ==
  LET list == IF from \in DOMAIN obj THEN value ELSE <<>> IN
  IF list = <<>> THEN Empty ELSE to :> list

LEMMA ListGot ==
  ASSUME NEW obj, NEW from, NEW to, NEW value, from \in DOMAIN obj => DOMAIN value # {}
  PROVE  /\ DOMAIN ListIn(obj, from, to, value) \subseteq {to}
         /\ Gets(ListIn(obj, from, to, value), to, obj, from, value)
<1>1. from \in DOMAIN obj => value # <<>>
  OBVIOUS
<1>2. ListIn(obj, from, to, value) = IF from \in DOMAIN obj THEN to :> value ELSE Empty
  BY <1>1 DEF ListIn
<1> QED
  BY <1>2, OneGot

\* Objects that agree on all names that either of them may have are the same.
LEMMA SameObject ==
  ASSUME NEW f, NEW g, NEW names, IsObject(f), IsObject(g),
         DOMAIN f \subseteq names, DOMAIN g \subseteq names,
         \A m \in names : Gets(f, m, g, m, g[m])
  PROVE  f = g
<1>1. DOMAIN f = DOMAIN g
  BY DEF Gets
<1>2. \A m \in DOMAIN f : f[m] = g[m]
  BY <1>1 DEF Gets
<1> QED
  BY <1>1, <1>2, SameMembers

-----------------------------------------------------------------------------
(* Objects that are put together from parts                                *)

\* An object with the members of its parts, those of an earlier part first.
OfTwo(all, a, b) ==
  /\ IsObject(all) /\ DOMAIN all = DOMAIN a \cup DOMAIN b
  /\ \A m \in DOMAIN a : all[m] = a[m]
  /\ \A m \in DOMAIN b : m \notin DOMAIN a => all[m] = b[m]
OfThree(all, a, b, c) ==
  /\ IsObject(all) /\ DOMAIN all = DOMAIN a \cup DOMAIN b \cup DOMAIN c
  /\ \A m \in DOMAIN a : all[m] = a[m]
  /\ \A m \in DOMAIN b : m \notin DOMAIN a => all[m] = b[m]
  /\ \A m \in DOMAIN c : m \notin DOMAIN a \cup DOMAIN b => all[m] = c[m]
OfFive(all, a, b, c, d, e) ==
  /\ IsObject(all)
  /\ DOMAIN all = DOMAIN a \cup DOMAIN b \cup DOMAIN c \cup DOMAIN d \cup DOMAIN e
  /\ \A m \in DOMAIN a : all[m] = a[m]
  /\ \A m \in DOMAIN b : m \notin DOMAIN a => all[m] = b[m]
  /\ \A m \in DOMAIN c : m \notin DOMAIN a \cup DOMAIN b => all[m] = c[m]
  /\ \A m \in DOMAIN d : m \notin DOMAIN a \cup DOMAIN b \cup DOMAIN c => all[m] = d[m]
  /\ \A m \in DOMAIN e :
       m \notin DOMAIN a \cup DOMAIN b \cup DOMAIN c \cup DOMAIN d => all[m] = e[m]

LEMMA TwoParts ==
  ASSUME NEW a, NEW b
  PROVE  OfTwo(a @@ b, a, b)
  BY DEF OfTwo, @@, IsObject

LEMMA ThreeParts ==
  ASSUME NEW a, NEW b, NEW c
  PROVE  OfThree(a @@ b @@ c, a, b, c)
<1> DEFINE two == a @@ b
           all == two @@ c
<1>1. OfTwo(two, a, b)
  BY TwoParts
<1> HIDE DEF two
<1>2. OfTwo(all, two, c)
  BY TwoParts
<1> HIDE DEF all
<1>3. OfThree(all, a, b, c)
  BY <1>1, <1>2 DEF OfTwo, OfThree
<1> QED
  BY <1>3 DEF all, two

LEMMA FiveParts ==
  ASSUME NEW a, NEW b, NEW c, NEW d, NEW e
  PROVE  OfFive(a @@ b @@ c @@ d @@ e, a, b, c, d, e)
<1> DEFINE three == a @@ b @@ c
           all == three @@ d @@ e
<1>1. OfThree(three, a, b, c)
  BY ThreeParts
<1> HIDE DEF three
<1>2. OfThree(all, three, d, e)
  BY ThreeParts
<1> HIDE DEF all
<1>3. OfFive(all, a, b, c, d, e)
  BY <1>1, <1>2 DEF OfThree, OfFive
<1> QED
  BY <1>3 DEF all, three

-----------------------------------------------------------------------------
(* Metas: what projects and packages have in common                        *)

PlainNames == {"title", "description", "url"}

\* The members with names of their own, and those that are converted, of either side.
LEMMA PlainIsTaken ==
  ASSUME NEW obj
  PROVE  /\ DOMAIN Take(obj, Plain) \subseteq PlainNames
         /\ \A m \in PlainNames : Gets(Take(obj, Plain), m, obj, m, obj[m])
<1>1. DOMAIN Plain = PlainNames /\ \A m \in PlainNames : Plain[m] = m
  BY DEF Plain, PlainNames
<1>2. OneToOne(Plain)
  BY <1>1 DEF OneToOne
<1>3. \A m \in DOMAIN Plain : Gets(Take(obj, Plain), Plain[m], obj, m, obj[m])
  BY <1>2, OneTaken
<1>4. DOMAIN Take(obj, Plain) \subseteq {Plain[m] : m \in DOMAIN Plain}
  BY <1>2, OneTaken
<1> QED
  BY <1>1, <1>3, <1>4

\* A list in a reply is not empty.
ListIsFilled(obj, m) == m \in DOMAIN obj => DOMAIN obj[m] # {}

-----------------------------------------------------------------------------
(* Elements whose members are only renamed                                *)

\* userFromApi(), userToApi()
LEMMA UserIsKept ==
  ASSUME NEW obj, IsObject(obj),
         DOMAIN obj \subseteq {"userid", "role"}
  PROVE  UserToApi(UserFromApi(obj)) = obj
<1> DEFINE names == [userid |-> "id", role |-> "role"]
           back == [id |-> "userid", role |-> "role"]
<1>1. /\ DOMAIN names = {"userid", "role"}
      /\ names["userid"] = "id" /\ names["role"] = "role"
  OBVIOUS
<1>2. /\ DOMAIN back = {"id", "role"}
      /\ back["id"] = "userid" /\ back["role"] = "role"
  OBVIOUS
<1>3. UserToApi(UserFromApi(obj)) = Take(Take(obj, names), back)
  BY DEF UserToApi, UserFromApi
<1> HIDE DEF names, back
<1>4. OneToOne(names) /\ OneToOne(back)
  BY <1>1, <1>2 DEF OneToOne
<1>5. \A m \in DOMAIN obj :
        m \in DOMAIN names /\ names[m] \in DOMAIN back /\ back[names[m]] = m
  BY <1>1, <1>2
<1> QED
  BY <1>3, <1>4, <1>5, TakenBack

\* groupFromApi(), groupToApi()
LEMMA GroupIsKept ==
  ASSUME NEW obj, IsObject(obj),
         DOMAIN obj \subseteq {"groupid", "role"}
  PROVE  GroupToApi(GroupFromApi(obj)) = obj
<1> DEFINE names == [groupid |-> "id", role |-> "role"]
           back == [id |-> "groupid", role |-> "role"]
<1>1. /\ DOMAIN names = {"groupid", "role"}
      /\ names["groupid"] = "id" /\ names["role"] = "role"
  OBVIOUS
<1>2. /\ DOMAIN back = {"id", "role"}
      /\ back["id"] = "groupid" /\ back["role"] = "role"
  OBVIOUS
<1>3. GroupToApi(GroupFromApi(obj)) = Take(Take(obj, names), back)
  BY DEF GroupToApi, GroupFromApi
<1> HIDE DEF names, back
<1>4. OneToOne(names) /\ OneToOne(back)
  BY <1>1, <1>2 DEF OneToOne
<1>5. \A m \in DOMAIN obj :
        m \in DOMAIN names /\ names[m] \in DOMAIN back /\ back[names[m]] = m
  BY <1>1, <1>2
<1> QED
  BY <1>3, <1>4, <1>5, TakenBack

\* targetFromApi(), targetToApi()
LEMMA TargetIsKept ==
  ASSUME NEW obj, IsObject(obj),
         DOMAIN obj \subseteq {"project", "package", "releaseproject", "repository"}
  PROVE  TargetToApi(TargetFromApi(obj)) = obj
<1> DEFINE names == [project |-> "projectName", package |-> "packageName",
                    releaseproject |-> "releaseProject", repository |-> "repository"]
           back == [projectName |-> "project", packageName |-> "package",
                   releaseProject |-> "releaseproject", repository |-> "repository"]
<1>1. /\ DOMAIN names = {"project", "package", "releaseproject", "repository"}
      /\ names["project"] = "projectName" /\ names["package"] = "packageName"
      /\ names["releaseproject"] = "releaseProject" /\ names["repository"] = "repository"
  OBVIOUS
<1>2. /\ DOMAIN back = {"projectName", "packageName", "releaseProject", "repository"}
      /\ back["projectName"] = "project" /\ back["packageName"] = "package"
      /\ back["releaseProject"] = "releaseproject" /\ back["repository"] = "repository"
  OBVIOUS
<1>3. TargetToApi(TargetFromApi(obj)) = Take(Take(obj, names), back)
  BY DEF TargetToApi, TargetFromApi
<1> HIDE DEF names, back
<1>4. OneToOne(names) /\ OneToOne(back)
  BY <1>1, <1>2 DEF OneToOne
<1>5. \A m \in DOMAIN obj :
        m \in DOMAIN names /\ names[m] \in DOMAIN back /\ back[names[m]] = m
  BY <1>1, <1>2
<1> QED
  BY <1>3, <1>4, <1>5, TakenBack

\* userFromRequestUserApi(), groupFromRequestGroupApi() and their converses
LEMMA PartyIsKept ==
  ASSUME NEW obj, IsObject(obj),
         DOMAIN obj \subseteq {"name", "role"}
  PROVE  PartyToApi(PartyFromApi(obj)) = obj
<1> DEFINE names == [name |-> "id", role |-> "role"]
           back == [id |-> "name", role |-> "role"]
<1>1. /\ DOMAIN names = {"name", "role"}
      /\ names["name"] = "id" /\ names["role"] = "role"
  OBVIOUS
<1>2. /\ DOMAIN back = {"id", "role"}
      /\ back["id"] = "name" /\ back["role"] = "role"
  OBVIOUS
<1>3. PartyToApi(PartyFromApi(obj)) = Take(Take(obj, names), back)
  BY DEF PartyToApi, PartyFromApi
<1> HIDE DEF names, back
<1>4. OneToOne(names) /\ OneToOne(back)
  BY <1>1, <1>2 DEF OneToOne
<1>5. \A m \in DOMAIN obj :
        m \in DOMAIN names /\ names[m] \in DOMAIN back /\ back[names[m]] = m
  BY <1>1, <1>2
<1> QED
  BY <1>3, <1>4, <1>5, TakenBack

\* acceptInfoFromApi(), acceptInfoToApi()
LEMMA AcceptInfoIsKept ==
  ASSUME NEW obj, IsObject(obj),
         DOMAIN obj \subseteq {"rev", "srcmd5", "osrcmd5", "oproject", "opackage", "xsrcmd5",
                               "oxsrcmd5"}
  PROVE  AcceptInfoToApi(AcceptInfoFromApi(obj)) = obj
<1> DEFINE names == [rev |-> "revision", srcmd5 |-> "sourceMd5",
                    osrcmd5 |-> "originalSourceMd5", oproject |-> "originalProject",
                    opackage |-> "originalPackage", xsrcmd5 |-> "expandedSourceMd5",
                    oxsrcmd5 |-> "originalExpandedSourceMd5"]
           back == [revision |-> "rev", sourceMd5 |-> "srcmd5",
                   originalSourceMd5 |-> "osrcmd5", originalProject |-> "oproject",
                   originalPackage |-> "opackage", expandedSourceMd5 |-> "xsrcmd5",
                   originalExpandedSourceMd5 |-> "oxsrcmd5"]
<1>1. /\ DOMAIN names = {"rev", "srcmd5", "osrcmd5", "oproject", "opackage", "xsrcmd5",
                         "oxsrcmd5"}
      /\ names["rev"] = "revision" /\ names["srcmd5"] = "sourceMd5"
      /\ names["osrcmd5"] = "originalSourceMd5" /\ names["oproject"] = "originalProject"
      /\ names["opackage"] = "originalPackage" /\ names["xsrcmd5"] = "expandedSourceMd5"
      /\ names["oxsrcmd5"] = "originalExpandedSourceMd5"
  OBVIOUS
<1>2. /\ DOMAIN back = {"revision", "sourceMd5", "originalSourceMd5", "originalProject",
                        "originalPackage", "expandedSourceMd5", "originalExpandedSourceMd5"}
      /\ back["revision"] = "rev" /\ back["sourceMd5"] = "srcmd5"
      /\ back["originalSourceMd5"] = "osrcmd5" /\ back["originalProject"] = "oproject"
      /\ back["originalPackage"] = "opackage" /\ back["expandedSourceMd5"] = "xsrcmd5"
      /\ back["originalExpandedSourceMd5"] = "oxsrcmd5"
  OBVIOUS
<1>3. AcceptInfoToApi(AcceptInfoFromApi(obj)) = Take(Take(obj, names), back)
  BY DEF AcceptInfoToApi, AcceptInfoFromApi
<1> HIDE DEF names, back
<1>4. OneToOne(names) /\ OneToOne(back)
  BY <1>1, <1>2 DEF OneToOne
<1>5. \A m \in DOMAIN obj :
        m \in DOMAIN names /\ names[m] \in DOMAIN back /\ back[names[m]] = m
  BY <1>1, <1>2
<1> QED
  BY <1>3, <1>4, <1>5, TakenBack

\* A time that was written is read as it was.
LEMMA ReadAsWritten ==
  ASSUME NEW date
  PROVE  DateOf(ToISOString(date)) = date
BY DEF DateOf, ToISOString

\* requestHistoryFromApi(), requestHistoryToApi()
LEMMA EntryIsKept ==
  ASSUME NEW obj, IsObject(obj),
         DOMAIN obj \subseteq {"who", "when", "description", "comment"}
  PROVE  /\ HistoryToApi(HistoryFromApi(obj)) = Converted(obj, "when", InUtc)
         /\ HistoryFromApi(Converted(obj, "when", InUtc)) = HistoryFromApi(obj)
<1> DEFINE names == [who |-> "userId", when |-> "time", description |-> "description",
                    comment |-> "comment"]
           back == [userId |-> "who", time |-> "when", description |-> "description",
                   comment |-> "comment"]
           dated == Converted(obj, "when", DateOf)
           utc == Converted(obj, "when", InUtc)
<1>1. /\ DOMAIN names = {"who", "when", "description", "comment"}
      /\ names["who"] = "userId" /\ names["when"] = "time"
      /\ names["description"] = "description" /\ names["comment"] = "comment"
  OBVIOUS
<1>2. /\ DOMAIN back = {"userId", "time", "description", "comment"}
      /\ back["userId"] = "who" /\ back["time"] = "when"
      /\ back["description"] = "description" /\ back["comment"] = "comment"
  OBVIOUS
<1>3. /\ HistoryFromApi(obj) = Take(dated, names)
      /\ HistoryToApi(Take(dated, names))
           = Converted(Take(Take(dated, names), back), "when", ToISOString)
      /\ HistoryFromApi(utc) = Take(Converted(utc, "when", DateOf), names)
  BY DEF HistoryToApi, HistoryFromApi
<1> HIDE DEF names, back
<1>4. OneToOne(names) /\ OneToOne(back)
  BY <1>1, <1>2 DEF OneToOne
<1>5. DOMAIN dated = DOMAIN obj /\ IsObject(dated)
  BY DEF Converted, IsObject
<1>6. \A m \in DOMAIN dated :
        m \in DOMAIN names /\ names[m] \in DOMAIN back /\ back[names[m]] = m
  BY <1>1, <1>2, <1>5
<1>7. Take(Take(dated, names), back) = dated
  BY <1>4, <1>5, <1>6, TakenBack
<1>8. Converted(dated, "when", ToISOString) = utc
  BY DEF Converted, InUtc
<1>9. Converted(utc, "when", DateOf) = dated
  BY ReadAsWritten DEF Converted, InUtc
<1> HIDE DEF dated, utc
<1>10. /\ HistoryToApi(HistoryFromApi(obj)) = utc
       /\ HistoryFromApi(utc) = HistoryFromApi(obj)
  BY <1>3, <1>7, <1>8, <1>9
<1> QED
  BY <1>10 DEF utc

\* The mirror of a download.
LEMMA MasterIsKept ==
  ASSUME NEW obj, IsObject(obj),
         DOMAIN obj \subseteq {"url", "sslfingerprint"}
  PROVE  Take(Take(obj, [url |-> "url", sslfingerprint |-> "fingerprint"]),
              [url |-> "url", fingerprint |-> "sslfingerprint"]) = obj
<1> DEFINE names == [url |-> "url", sslfingerprint |-> "fingerprint"]
           back == [url |-> "url", fingerprint |-> "sslfingerprint"]
<1>1. /\ DOMAIN names = {"url", "sslfingerprint"}
      /\ names["url"] = "url" /\ names["sslfingerprint"] = "fingerprint"
  OBVIOUS
<1>2. /\ DOMAIN back = {"url", "fingerprint"}
      /\ back["url"] = "url" /\ back["fingerprint"] = "sslfingerprint"
  OBVIOUS
<1>3. Take(Take(obj, [url |-> "url", sslfingerprint |-> "fingerprint"]),
           [url |-> "url", fingerprint |-> "sslfingerprint"]) = Take(Take(obj, names), back)
  OBVIOUS
<1> HIDE DEF names, back
<1>4. OneToOne(names) /\ OneToOne(back)
  BY <1>1, <1>2 DEF OneToOne
<1>5. \A m \in DOMAIN obj :
        m \in DOMAIN names /\ names[m] \in DOMAIN back /\ back[names[m]] = m
  BY <1>1, <1>2
<1> QED
  BY <1>3, <1>4, <1>5, TakenBack

ReadNames == PlainNames \cup {"build", "debugInfo", "group", "lock", "person", "publish",
              "sourceAccess", "useForBuild"}

\* What is read of the members that projects and packages have in common.
CommonRead(new, obj) ==
  /\ \A m \in PlainNames : Gets(new, m, obj, m, obj[m])
  /\ Gets(new, "build", obj, "build", FlagFromApi(obj["build"]))
  /\ Gets(new, "debugInfo", obj, "debuginfo", FlagFromApi(obj["debuginfo"]))
  /\ Gets(new, "group", obj, "group",
          [i \in DOMAIN obj["group"] |-> GroupFromApi(obj["group"][i])])
  /\ Gets(new, "lock", obj, "lock", SimpleFlagToBoolean(obj["lock"]))
  /\ Gets(new, "person", obj, "person",
          [i \in DOMAIN obj["person"] |-> UserFromApi(obj["person"][i])])
  /\ Gets(new, "publish", obj, "publish", FlagFromApi(obj["publish"]))
  /\ Gets(new, "sourceAccess", obj, "sourceaccess", SimpleFlagToBoolean(obj["sourceaccess"]))
  /\ Gets(new, "useForBuild", obj, "useforbuild", FlagFromApi(obj["useforbuild"]))

\* What commonMetaFromApi() makes of a meta.
LEMMA CommonIsRead ==
  ASSUME NEW obj, ListIsFilled(obj, "group"), ListIsFilled(obj, "person")
  PROVE  LET new == CommonMetaFromApi(obj) IN
         IsObject(new) /\ DOMAIN new \subseteq ReadNames /\ CommonRead(new, obj)
<1> DEFINE p1 == Take(obj, Plain)
           p2 == Child(obj, "build", "build", FlagFromApi)
           p3 == Child(obj, "debuginfo", "debugInfo", FlagFromApi)
           p4 == Children(obj, "group", "group", GroupFromApi)
           p5 == Child(obj, "lock", "lock", SimpleFlagToBoolean)
           p6 == Children(obj, "person", "person", UserFromApi)
           p7 == Child(obj, "publish", "publish", FlagFromApi)
           p8 == Child(obj, "sourceaccess", "sourceAccess", SimpleFlagToBoolean)
           p9 == Child(obj, "useforbuild", "useForBuild", FlagFromApi)
           first == p1 @@ p2 @@ p3 @@ p4 @@ p5
           new == first @@ p6 @@ p7 @@ p8 @@ p9
<1>1. /\ DOMAIN p1 \subseteq PlainNames
      /\ \A m \in PlainNames : Gets(p1, m, obj, m, obj[m])
  BY PlainIsTaken
<1>2. /\ DOMAIN p2 \subseteq {"build"}
      /\ Gets(p2, "build", obj, "build", FlagFromApi(obj["build"]))
  BY OneGot DEF Child
<1>3. /\ DOMAIN p3 \subseteq {"debugInfo"}
      /\ Gets(p3, "debugInfo", obj, "debuginfo", FlagFromApi(obj["debuginfo"]))
  BY OneGot DEF Child
<1>4. /\ DOMAIN p4 \subseteq {"group"}
      /\ Gets(p4, "group", obj, "group",
              [i \in DOMAIN obj["group"] |-> GroupFromApi(obj["group"][i])])
  <2> DEFINE list == [i \in DOMAIN obj["group"] |-> GroupFromApi(obj["group"][i])]
  <2>1. "group" \in DOMAIN obj => DOMAIN list # {}
    BY DEF ListIsFilled
  <2>2. p4 = ListIn(obj, "group", "group", list)
    BY DEF Children, ListOf, List, ListIn
  <2> HIDE DEF list
  <2>3. /\ DOMAIN p4 \subseteq {"group"}
        /\ Gets(p4, "group", obj, "group", list)
    BY <2>1, <2>2, ListGot
  <2> QED
    BY <2>3 DEF list
<1>5. /\ DOMAIN p5 \subseteq {"lock"}
      /\ Gets(p5, "lock", obj, "lock", SimpleFlagToBoolean(obj["lock"]))
  BY OneGot DEF Child
<1>6. /\ DOMAIN p6 \subseteq {"person"}
      /\ Gets(p6, "person", obj, "person",
              [i \in DOMAIN obj["person"] |-> UserFromApi(obj["person"][i])])
  <2> DEFINE list == [i \in DOMAIN obj["person"] |-> UserFromApi(obj["person"][i])]
  <2>1. "person" \in DOMAIN obj => DOMAIN list # {}
    BY DEF ListIsFilled
  <2>2. p6 = ListIn(obj, "person", "person", list)
    BY DEF Children, ListOf, List, ListIn
  <2> HIDE DEF list
  <2>3. /\ DOMAIN p6 \subseteq {"person"}
        /\ Gets(p6, "person", obj, "person", list)
    BY <2>1, <2>2, ListGot
  <2> QED
    BY <2>3 DEF list
<1>7. /\ DOMAIN p7 \subseteq {"publish"}
      /\ Gets(p7, "publish", obj, "publish", FlagFromApi(obj["publish"]))
  BY OneGot DEF Child
<1>8. /\ DOMAIN p8 \subseteq {"sourceAccess"}
      /\ Gets(p8, "sourceAccess", obj, "sourceaccess", SimpleFlagToBoolean(obj["sourceaccess"]))
  BY OneGot DEF Child
<1>9. /\ DOMAIN p9 \subseteq {"useForBuild"}
      /\ Gets(p9, "useForBuild", obj, "useforbuild", FlagFromApi(obj["useforbuild"]))
  BY OneGot DEF Child
<1> HIDE DEF p1, p2, p3, p4, p5, p6, p7, p8, p9
<1>10. OfFive(first, p1, p2, p3, p4, p5)
  BY FiveParts
<1> HIDE DEF first
<1>11. OfFive(new, first, p6, p7, p8, p9)
  BY FiveParts
<1> HIDE DEF new
<1>12. CommonMetaFromApi(obj) = new
  BY DEF CommonMetaFromApi, new, first, p1, p2, p3, p4, p5, p6, p7, p8, p9
<1>13. IsObject(new) /\ DOMAIN new \subseteq ReadNames
  BY <1>1, <1>2, <1>3, <1>4, <1>5, <1>6, <1>7, <1>8, <1>9, <1>10, <1>11
     DEF OfFive, ReadNames
<1>14. CommonRead(new, obj)
  BY <1>1, <1>2, <1>3, <1>4, <1>5, <1>6, <1>7, <1>8, <1>9, <1>10, <1>11
     DEF OfFive, Gets, CommonRead, PlainNames
<1> QED
  BY <1>12, <1>13, <1>14

WrittenNames == PlainNames \cup {"build", "debuginfo", "lock", "publish", "sourceaccess",
                 "useforbuild", "person", "group"}

\* What is written of them.
CommonWritten(new, obj) ==
  /\ \A m \in PlainNames : Gets(new, m, obj, m, obj[m])
  /\ Gets(new, "build", obj, "build", FlagToApi(obj["build"]))
  /\ Gets(new, "debuginfo", obj, "debugInfo", FlagToApi(obj["debugInfo"]))
  /\ Gets(new, "lock", obj, "lock", BooleanToSimpleFlag(obj["lock"]))
  /\ Gets(new, "publish", obj, "publish", FlagToApi(obj["publish"]))
  /\ Gets(new, "sourceaccess", obj, "sourceAccess", BooleanToSimpleFlag(obj["sourceAccess"]))
  /\ Gets(new, "useforbuild", obj, "useForBuild", FlagToApi(obj["useForBuild"]))
  /\ Gets(new, "person", obj, "person",
          [i \in DOMAIN obj["person"] |-> UserToApi(obj["person"][i])])
  /\ Gets(new, "group", obj, "group", [i \in DOMAIN obj["group"] |-> GroupToApi(obj["group"][i])])

\* What commonMetaToApi() makes of it.
LEMMA CommonIsWritten ==
  ASSUME NEW obj, ListIsFilled(obj, "person"), ListIsFilled(obj, "group")
  PROVE  LET new == CommonMetaToApi(obj) IN
         IsObject(new) /\ DOMAIN new \subseteq WrittenNames /\ CommonWritten(new, obj)
<1> DEFINE p1 == Take(obj, Plain)
           p2 == Child(obj, "build", "build", FlagToApi)
           p3 == Child(obj, "debugInfo", "debuginfo", FlagToApi)
           p4 == Child(obj, "lock", "lock", BooleanToSimpleFlag)
           p5 == Child(obj, "publish", "publish", FlagToApi)
           p6 == Child(obj, "sourceAccess", "sourceaccess", BooleanToSimpleFlag)
           p7 == Child(obj, "useForBuild", "useforbuild", FlagToApi)
           p8 == Children(obj, "person", "person", UserToApi)
           p9 == Children(obj, "group", "group", GroupToApi)
           first == p1 @@ p2 @@ p3 @@ p4 @@ p5
           new == first @@ p6 @@ p7 @@ p8 @@ p9
<1>1. /\ DOMAIN p1 \subseteq PlainNames
      /\ \A m \in PlainNames : Gets(p1, m, obj, m, obj[m])
  BY PlainIsTaken
<1>2. /\ DOMAIN p2 \subseteq {"build"}
      /\ Gets(p2, "build", obj, "build", FlagToApi(obj["build"]))
  BY OneGot DEF Child
<1>3. /\ DOMAIN p3 \subseteq {"debuginfo"}
      /\ Gets(p3, "debuginfo", obj, "debugInfo", FlagToApi(obj["debugInfo"]))
  BY OneGot DEF Child
<1>4. /\ DOMAIN p4 \subseteq {"lock"}
      /\ Gets(p4, "lock", obj, "lock", BooleanToSimpleFlag(obj["lock"]))
  BY OneGot DEF Child
<1>5. /\ DOMAIN p5 \subseteq {"publish"}
      /\ Gets(p5, "publish", obj, "publish", FlagToApi(obj["publish"]))
  BY OneGot DEF Child
<1>6. /\ DOMAIN p6 \subseteq {"sourceaccess"}
      /\ Gets(p6, "sourceaccess", obj, "sourceAccess", BooleanToSimpleFlag(obj["sourceAccess"]))
  BY OneGot DEF Child
<1>7. /\ DOMAIN p7 \subseteq {"useforbuild"}
      /\ Gets(p7, "useforbuild", obj, "useForBuild", FlagToApi(obj["useForBuild"]))
  BY OneGot DEF Child
<1>8. /\ DOMAIN p8 \subseteq {"person"}
      /\ Gets(p8, "person", obj, "person",
              [i \in DOMAIN obj["person"] |-> UserToApi(obj["person"][i])])
  <2> DEFINE list == [i \in DOMAIN obj["person"] |-> UserToApi(obj["person"][i])]
  <2>1. "person" \in DOMAIN obj => DOMAIN list # {}
    BY DEF ListIsFilled
  <2>2. p8 = ListIn(obj, "person", "person", list)
    BY DEF Children, ListOf, List, ListIn
  <2> HIDE DEF list
  <2>3. /\ DOMAIN p8 \subseteq {"person"}
        /\ Gets(p8, "person", obj, "person", list)
    BY <2>1, <2>2, ListGot
  <2> QED
    BY <2>3 DEF list
<1>9. /\ DOMAIN p9 \subseteq {"group"}
      /\ Gets(p9, "group", obj, "group",
              [i \in DOMAIN obj["group"] |-> GroupToApi(obj["group"][i])])
  <2> DEFINE list == [i \in DOMAIN obj["group"] |-> GroupToApi(obj["group"][i])]
  <2>1. "group" \in DOMAIN obj => DOMAIN list # {}
    BY DEF ListIsFilled
  <2>2. p9 = ListIn(obj, "group", "group", list)
    BY DEF Children, ListOf, List, ListIn
  <2> HIDE DEF list
  <2>3. /\ DOMAIN p9 \subseteq {"group"}
        /\ Gets(p9, "group", obj, "group", list)
    BY <2>1, <2>2, ListGot
  <2> QED
    BY <2>3 DEF list
<1> HIDE DEF p1, p2, p3, p4, p5, p6, p7, p8, p9
<1>10. OfFive(first, p1, p2, p3, p4, p5)
  BY FiveParts
<1> HIDE DEF first
<1>11. OfFive(new, first, p6, p7, p8, p9)
  BY FiveParts
<1> HIDE DEF new
<1>12. CommonMetaToApi(obj) = new
  BY DEF CommonMetaToApi, new, first, p1, p2, p3, p4, p5, p6, p7, p8, p9
<1>13. IsObject(new) /\ DOMAIN new \subseteq WrittenNames
  BY <1>1, <1>2, <1>3, <1>4, <1>5, <1>6, <1>7, <1>8, <1>9, <1>10, <1>11
     DEF OfFive, WrittenNames
<1>14. CommonWritten(new, obj)
  BY <1>1, <1>2, <1>3, <1>4, <1>5, <1>6, <1>7, <1>8, <1>9, <1>10, <1>11
     DEF OfFive, Gets, CommonWritten, PlainNames
<1> QED
  BY <1>12, <1>13, <1>14

ReadOfProject == ReadNames \cup {"name", "kind", "mountProject", "access", "link", "repository"}

\* What is read of a project.
ProjectRead(new, obj) ==
  /\ CommonRead(new, obj)
  /\ Gets(new, "name", obj, "name", obj["name"])
  /\ Gets(new, "kind", obj, "kind", obj["kind"])
  /\ Gets(new, "mountProject", obj, "mountproject", obj["mountproject"])
  /\ Gets(new, "access", obj, "access", SimpleFlagToBoolean(obj["access"]))
  /\ Gets(new, "link", obj, "link", [i \in DOMAIN obj["link"] |-> LinkFromApi(obj["link"][i])])
  /\ Gets(new, "repository", obj, "repository",
          [i \in DOMAIN obj["repository"] |-> BaseRepositoryFromApi(obj["repository"][i])])

\* What projectMetaFromApi() makes of a meta.
LEMMA ProjectIsRead ==
  ASSUME NEW obj, ListIsFilled(obj, "person"), ListIsFilled(obj, "group"),
         ListIsFilled(obj, "link"), ListIsFilled(obj, "repository")
  PROVE  LET new == ProjectMetaFromApi(obj) IN
         IsObject(new) /\ DOMAIN new \subseteq ReadOfProject /\ ProjectRead(new, obj)
<1> DEFINE p1 == CommonMetaFromApi(obj)
           p2 == Take(obj, [name |-> "name", kind |-> "kind", mountproject |-> "mountProject"])
           p3 == Child(obj, "access", "access", SimpleFlagToBoolean)
           p4 == Children(obj, "link", "link", LinkFromApi)
           p5 == Children(obj, "repository", "repository", BaseRepositoryFromApi)
           new == p1 @@ p2 @@ p3 @@ p4 @@ p5
<1>1. DOMAIN p1 \subseteq ReadNames /\ CommonRead(p1, obj)
  BY CommonIsRead
<1>2. /\ DOMAIN p2 \subseteq {"name", "kind", "mountProject"}
      /\ Gets(p2, "name", obj, "name", obj["name"])
      /\ Gets(p2, "kind", obj, "kind", obj["kind"])
      /\ Gets(p2, "mountProject", obj, "mountproject", obj["mountproject"])
  <2> DEFINE names == [name |-> "name", kind |-> "kind", mountproject |-> "mountProject"]
  <2>1. /\ DOMAIN names = {"name", "kind", "mountproject"}
        /\ names["name"] = "name" /\ names["kind"] = "kind"
        /\ names["mountproject"] = "mountProject"
    OBVIOUS
  <2> HIDE DEF names
  <2>2. OneToOne(names)
    BY <2>1 DEF OneToOne
  <2>3. \A m \in DOMAIN names : Gets(Take(obj, names), names[m], obj, m, obj[m])
    BY <2>2, OneTaken
  <2>4. DOMAIN Take(obj, names) \subseteq {names[m] : m \in DOMAIN names}
    BY <2>2, OneTaken
  <2> QED
    BY <2>1, <2>3, <2>4 DEF names
<1>3. /\ DOMAIN p3 \subseteq {"access"}
      /\ Gets(p3, "access", obj, "access", SimpleFlagToBoolean(obj["access"]))
  BY OneGot DEF Child
<1>4. /\ DOMAIN p4 \subseteq {"link"}
      /\ Gets(p4, "link", obj, "link", [i \in DOMAIN obj["link"] |-> LinkFromApi(obj["link"][i])])
  <2> DEFINE list == [i \in DOMAIN obj["link"] |-> LinkFromApi(obj["link"][i])]
  <2>1. "link" \in DOMAIN obj => DOMAIN list # {}
    BY DEF ListIsFilled
  <2>2. p4 = ListIn(obj, "link", "link", list)
    BY DEF Children, ListOf, List, ListIn
  <2> HIDE DEF list
  <2>3. /\ DOMAIN p4 \subseteq {"link"}
        /\ Gets(p4, "link", obj, "link", list)
    BY <2>1, <2>2, ListGot
  <2> QED
    BY <2>3 DEF list
<1>5. /\ DOMAIN p5 \subseteq {"repository"}
      /\ Gets(p5, "repository", obj, "repository",
              [i \in DOMAIN obj["repository"] |-> BaseRepositoryFromApi(obj["repository"][i])])
  <2> DEFINE list == [i \in DOMAIN obj["repository"] |->
                       BaseRepositoryFromApi(obj["repository"][i])]
  <2>1. "repository" \in DOMAIN obj => DOMAIN list # {}
    BY DEF ListIsFilled
  <2>2. p5 = ListIn(obj, "repository", "repository", list)
    BY DEF Children, ListOf, List, ListIn
  <2> HIDE DEF list
  <2>3. /\ DOMAIN p5 \subseteq {"repository"}
        /\ Gets(p5, "repository", obj, "repository", list)
    BY <2>1, <2>2, ListGot
  <2> QED
    BY <2>3 DEF list
<1> HIDE DEF p1, p2, p3, p4, p5
<1>6. OfFive(new, p1, p2, p3, p4, p5)
  BY FiveParts
<1> HIDE DEF new
<1>7. ProjectMetaFromApi(obj) = new
  BY DEF ProjectMetaFromApi, new, p1, p2, p3, p4, p5
<1>8. IsObject(new) /\ DOMAIN new \subseteq ReadOfProject
  BY <1>1, <1>2, <1>3, <1>4, <1>5, <1>6
     DEF OfFive, ReadOfProject
<1>9. ProjectRead(new, obj)
  BY <1>1, <1>2, <1>3, <1>4, <1>5, <1>6
     DEF OfFive, Gets, ProjectRead, CommonRead, ReadNames, PlainNames
<1> QED
  BY <1>7, <1>8, <1>9

WrittenOfProject == WrittenNames \cup {"name", "kind", "mountproject", "access", "link",
                     "repository"}

\* What is written of it.
ProjectWritten(new, obj) ==
  /\ CommonWritten(new, obj)
  /\ Gets(new, "name", obj, "name", obj["name"])
  /\ Gets(new, "kind", obj, "kind", obj["kind"])
  /\ Gets(new, "mountproject", obj, "mountProject", obj["mountProject"])
  /\ Gets(new, "access", obj, "access", BooleanToSimpleFlag(obj["access"]))
  /\ Gets(new, "link", obj, "link", [i \in DOMAIN obj["link"] |-> LinkToApi(obj["link"][i])])
  /\ Gets(new, "repository", obj, "repository",
          [i \in DOMAIN obj["repository"] |-> BaseRepositoryToApi(obj["repository"][i])])

\* What projectMetaToApi() makes of it.
LEMMA ProjectIsWritten ==
  ASSUME NEW obj, ListIsFilled(obj, "person"), ListIsFilled(obj, "group"),
         ListIsFilled(obj, "link"), ListIsFilled(obj, "repository")
  PROVE  LET new == ProjectMetaToApi(obj) IN
         IsObject(new) /\ DOMAIN new \subseteq WrittenOfProject /\ ProjectWritten(new, obj)
<1> DEFINE p1 == CommonMetaToApi(obj)
           p2 == Take(obj, [name |-> "name", kind |-> "kind", mountProject |-> "mountproject"])
           p3 == Child(obj, "access", "access", BooleanToSimpleFlag)
           p4 == Children(obj, "link", "link", LinkToApi)
           p5 == Children(obj, "repository", "repository", BaseRepositoryToApi)
           new == p1 @@ p2 @@ p3 @@ p4 @@ p5
<1>1. DOMAIN p1 \subseteq WrittenNames /\ CommonWritten(p1, obj)
  BY CommonIsWritten
<1>2. /\ DOMAIN p2 \subseteq {"name", "kind", "mountproject"}
      /\ Gets(p2, "name", obj, "name", obj["name"])
      /\ Gets(p2, "kind", obj, "kind", obj["kind"])
      /\ Gets(p2, "mountproject", obj, "mountProject", obj["mountProject"])
  <2> DEFINE names == [name |-> "name", kind |-> "kind", mountProject |-> "mountproject"]
  <2>1. /\ DOMAIN names = {"name", "kind", "mountProject"}
        /\ names["name"] = "name" /\ names["kind"] = "kind"
        /\ names["mountProject"] = "mountproject"
    OBVIOUS
  <2> HIDE DEF names
  <2>2. OneToOne(names)
    BY <2>1 DEF OneToOne
  <2>3. \A m \in DOMAIN names : Gets(Take(obj, names), names[m], obj, m, obj[m])
    BY <2>2, OneTaken
  <2>4. DOMAIN Take(obj, names) \subseteq {names[m] : m \in DOMAIN names}
    BY <2>2, OneTaken
  <2> QED
    BY <2>1, <2>3, <2>4 DEF names
<1>3. /\ DOMAIN p3 \subseteq {"access"}
      /\ Gets(p3, "access", obj, "access", BooleanToSimpleFlag(obj["access"]))
  BY OneGot DEF Child
<1>4. /\ DOMAIN p4 \subseteq {"link"}
      /\ Gets(p4, "link", obj, "link", [i \in DOMAIN obj["link"] |-> LinkToApi(obj["link"][i])])
  <2> DEFINE list == [i \in DOMAIN obj["link"] |-> LinkToApi(obj["link"][i])]
  <2>1. "link" \in DOMAIN obj => DOMAIN list # {}
    BY DEF ListIsFilled
  <2>2. p4 = ListIn(obj, "link", "link", list)
    BY DEF Children, ListOf, List, ListIn
  <2> HIDE DEF list
  <2>3. /\ DOMAIN p4 \subseteq {"link"}
        /\ Gets(p4, "link", obj, "link", list)
    BY <2>1, <2>2, ListGot
  <2> QED
    BY <2>3 DEF list
<1>5. /\ DOMAIN p5 \subseteq {"repository"}
      /\ Gets(p5, "repository", obj, "repository",
              [i \in DOMAIN obj["repository"] |-> BaseRepositoryToApi(obj["repository"][i])])
  <2> DEFINE list == [i \in DOMAIN obj["repository"] |->
                       BaseRepositoryToApi(obj["repository"][i])]
  <2>1. "repository" \in DOMAIN obj => DOMAIN list # {}
    BY DEF ListIsFilled
  <2>2. p5 = ListIn(obj, "repository", "repository", list)
    BY DEF Children, ListOf, List, ListIn
  <2> HIDE DEF list
  <2>3. /\ DOMAIN p5 \subseteq {"repository"}
        /\ Gets(p5, "repository", obj, "repository", list)
    BY <2>1, <2>2, ListGot
  <2> QED
    BY <2>3 DEF list
<1> HIDE DEF p1, p2, p3, p4, p5
<1>6. OfFive(new, p1, p2, p3, p4, p5)
  BY FiveParts
<1> HIDE DEF new
<1>7. ProjectMetaToApi(obj) = new
  BY DEF ProjectMetaToApi, new, p1, p2, p3, p4, p5
<1>8. IsObject(new) /\ DOMAIN new \subseteq WrittenOfProject
  BY <1>1, <1>2, <1>3, <1>4, <1>5, <1>6
     DEF OfFive, WrittenOfProject
<1>9. ProjectWritten(new, obj)
  BY <1>1, <1>2, <1>3, <1>4, <1>5, <1>6
     DEF OfFive, Gets, ProjectWritten, CommonWritten, WrittenNames, PlainNames
<1> QED
  BY <1>7, <1>8, <1>9

ReadOfPackage == ReadNames \cup {"name", "project", "develPackage"}

\* What is read of a package.
PackageRead(new, obj) ==
  /\ Gets(new, "name", obj, "name", obj["name"])
  /\ Gets(new, "project", obj, "project", obj["project"])
  /\ Gets(new, "develPackage", obj, "devel", obj["devel"])
  /\ CommonRead(new, obj)

\* What packageMetaFromApi() makes of a meta.
LEMMA PackageIsRead ==
  ASSUME NEW obj, ListIsFilled(obj, "person"), ListIsFilled(obj, "group")
  PROVE  LET new == PackageMetaFromApi(obj) IN
         IsObject(new) /\ DOMAIN new \subseteq ReadOfPackage /\ PackageRead(new, obj)
<1> DEFINE p1 == Take(obj, [name |-> "name", project |-> "project"])
           p2 == Child(obj, "devel", "develPackage", Copied)
           p3 == CommonMetaFromApi(obj)
           new == p1 @@ p2 @@ p3
<1>1. /\ DOMAIN p1 \subseteq {"name", "project"}
      /\ Gets(p1, "name", obj, "name", obj["name"])
      /\ Gets(p1, "project", obj, "project", obj["project"])
  <2> DEFINE names == [name |-> "name", project |-> "project"]
  <2>1. /\ DOMAIN names = {"name", "project"}
        /\ names["name"] = "name" /\ names["project"] = "project"
    OBVIOUS
  <2> HIDE DEF names
  <2>2. OneToOne(names)
    BY <2>1 DEF OneToOne
  <2>3. \A m \in DOMAIN names : Gets(Take(obj, names), names[m], obj, m, obj[m])
    BY <2>2, OneTaken
  <2>4. DOMAIN Take(obj, names) \subseteq {names[m] : m \in DOMAIN names}
    BY <2>2, OneTaken
  <2> QED
    BY <2>1, <2>3, <2>4 DEF names
<1>2. /\ DOMAIN p2 \subseteq {"develPackage"}
      /\ Gets(p2, "develPackage", obj, "devel", obj["devel"])
  BY OneGot DEF Child, Copied
<1>3. DOMAIN p3 \subseteq ReadNames /\ CommonRead(p3, obj)
  BY CommonIsRead
<1> HIDE DEF p1, p2, p3
<1>4. OfThree(new, p1, p2, p3)
  BY ThreeParts
<1> HIDE DEF new
<1>5. PackageMetaFromApi(obj) = new
  BY DEF PackageMetaFromApi, new, p1, p2, p3
<1>6. IsObject(new) /\ DOMAIN new \subseteq ReadOfPackage
  BY <1>1, <1>2, <1>3, <1>4
     DEF OfThree, ReadOfPackage
<1>7. PackageRead(new, obj)
  BY <1>1, <1>2, <1>3, <1>4
     DEF OfThree, Gets, PackageRead, CommonRead, ReadNames, PlainNames
<1> QED
  BY <1>5, <1>6, <1>7

WrittenOfPackage == WrittenNames \cup {"name", "project", "devel"}

\* What is written of it.
PackageWritten(new, obj) ==
  /\ Gets(new, "name", obj, "name", obj["name"])
  /\ Gets(new, "project", obj, "project", obj["project"])
  /\ CommonWritten(new, obj)
  /\ Gets(new, "devel", obj, "develPackage", obj["develPackage"])

\* What packageMetaToApi() makes of it.
LEMMA PackageIsWritten ==
  ASSUME NEW obj, ListIsFilled(obj, "person"), ListIsFilled(obj, "group")
  PROVE  LET new == PackageMetaToApi(obj) IN
         IsObject(new) /\ DOMAIN new \subseteq WrittenOfPackage /\ PackageWritten(new, obj)
<1> DEFINE p1 == Take(obj, [name |-> "name", project |-> "project"])
           p2 == CommonMetaToApi(obj)
           p3 == Child(obj, "develPackage", "devel", Copied)
           new == p1 @@ p2 @@ p3
<1>1. /\ DOMAIN p1 \subseteq {"name", "project"}
      /\ Gets(p1, "name", obj, "name", obj["name"])
      /\ Gets(p1, "project", obj, "project", obj["project"])
  <2> DEFINE names == [name |-> "name", project |-> "project"]
  <2>1. /\ DOMAIN names = {"name", "project"}
        /\ names["name"] = "name" /\ names["project"] = "project"
    OBVIOUS
  <2> HIDE DEF names
  <2>2. OneToOne(names)
    BY <2>1 DEF OneToOne
  <2>3. \A m \in DOMAIN names : Gets(Take(obj, names), names[m], obj, m, obj[m])
    BY <2>2, OneTaken
  <2>4. DOMAIN Take(obj, names) \subseteq {names[m] : m \in DOMAIN names}
    BY <2>2, OneTaken
  <2> QED
    BY <2>1, <2>3, <2>4 DEF names
<1>2. DOMAIN p2 \subseteq WrittenNames /\ CommonWritten(p2, obj)
  BY CommonIsWritten
<1>3. /\ DOMAIN p3 \subseteq {"devel"}
      /\ Gets(p3, "devel", obj, "develPackage", obj["develPackage"])
  BY OneGot DEF Child, Copied
<1> HIDE DEF p1, p2, p3
<1>4. OfThree(new, p1, p2, p3)
  BY ThreeParts
<1> HIDE DEF new
<1>5. PackageMetaToApi(obj) = new
  BY DEF PackageMetaToApi, new, p1, p2, p3
<1>6. IsObject(new) /\ DOMAIN new \subseteq WrittenOfPackage
  BY <1>1, <1>2, <1>3, <1>4
     DEF OfThree, WrittenOfPackage
<1>7. PackageWritten(new, obj)
  BY <1>1, <1>2, <1>3, <1>4
     DEF OfThree, Gets, PackageWritten, CommonWritten, WrittenNames, PlainNames
<1> QED
  BY <1>5, <1>6, <1>7

ReadOfDownload == {"arch", "url", "repositoryType", "publicKey", "architectureFilter",
                   "sslMaster"}

\* What is read of a download.
DownloadRead(new, obj) ==
  /\ Gets(new, "arch", obj, "arch", obj["arch"])
  /\ Gets(new, "url", obj, "url", obj["url"])
  /\ Gets(new, "repositoryType", obj, "repotype", obj["repotype"])
  /\ Gets(new, "publicKey", obj, "pubkey", obj["pubkey"])
  /\ Gets(new, "architectureFilter", obj, "archfilter", Split(obj["archfilter"]))
  /\ Gets(new, "sslMaster", obj, "master",
          Take(obj["master"], [url |-> "url", sslfingerprint |-> "fingerprint"]))

\* What downloadFromApi() makes of an element.
LEMMA DownloadIsRead ==
  ASSUME NEW obj
  PROVE  LET new == DownloadFromApi(obj) IN
         IsObject(new) /\ DOMAIN new \subseteq ReadOfDownload /\ DownloadRead(new, obj)
<1> DEFINE p1 == Take(obj, [arch |-> "arch", url |-> "url", repotype |-> "repositoryType",
                            pubkey |-> "publicKey"])
           p2 == Child(obj, "archfilter", "architectureFilter", Split)
           p3 == Child(obj, "master", "sslMaster", 
                       LAMBDA m : Take(m, [url |-> "url", sslfingerprint |-> "fingerprint"]))
           new == p1 @@ p2 @@ p3
<1>1. /\ DOMAIN p1 \subseteq {"arch", "url", "repositoryType", "publicKey"}
      /\ Gets(p1, "arch", obj, "arch", obj["arch"])
      /\ Gets(p1, "url", obj, "url", obj["url"])
      /\ Gets(p1, "repositoryType", obj, "repotype", obj["repotype"])
      /\ Gets(p1, "publicKey", obj, "pubkey", obj["pubkey"])
  <2> DEFINE names == [arch |-> "arch", url |-> "url", repotype |-> "repositoryType",
                      pubkey |-> "publicKey"]
  <2>1. /\ DOMAIN names = {"arch", "url", "repotype", "pubkey"}
        /\ names["arch"] = "arch" /\ names["url"] = "url"
        /\ names["repotype"] = "repositoryType" /\ names["pubkey"] = "publicKey"
    OBVIOUS
  <2> HIDE DEF names
  <2>2. OneToOne(names)
    BY <2>1 DEF OneToOne
  <2>3. \A m \in DOMAIN names : Gets(Take(obj, names), names[m], obj, m, obj[m])
    BY <2>2, OneTaken
  <2>4. DOMAIN Take(obj, names) \subseteq {names[m] : m \in DOMAIN names}
    BY <2>2, OneTaken
  <2> QED
    BY <2>1, <2>3, <2>4 DEF names
<1>2. /\ DOMAIN p2 \subseteq {"architectureFilter"}
      /\ Gets(p2, "architectureFilter", obj, "archfilter", Split(obj["archfilter"]))
  BY OneGot DEF Child
<1>3. /\ DOMAIN p3 \subseteq {"sslMaster"}
      /\ Gets(p3, "sslMaster", obj, "master",
              Take(obj["master"], [url |-> "url", sslfingerprint |-> "fingerprint"]))
  <2> DEFINE value == Take(obj["master"], [url |-> "url", sslfingerprint |-> "fingerprint"])
  <2>1. p3 = IF "master" \in DOMAIN obj THEN "sslMaster" :> value ELSE Empty
    BY DEF Child
  <2> HIDE DEF p3, value
  <2>2. DOMAIN p3 \subseteq {"sslMaster"} /\ Gets(p3, "sslMaster", obj, "master", value)
    BY <2>1, OneGot
  <2> QED
    BY <2>2 DEF value
<1> HIDE DEF p1, p2, p3
<1>4. OfThree(new, p1, p2, p3)
  BY ThreeParts
<1> HIDE DEF new
<1>5. DownloadFromApi(obj) = new
  BY DEF DownloadFromApi, new, p1, p2, p3
<1>6. IsObject(new) /\ DOMAIN new \subseteq ReadOfDownload
  BY <1>1, <1>2, <1>3, <1>4
     DEF OfThree, ReadOfDownload
<1>7. DownloadRead(new, obj)
  BY <1>1, <1>2, <1>3, <1>4
     DEF OfThree, Gets, DownloadRead
<1> QED
  BY <1>5, <1>6, <1>7

WrittenOfDownload == {"arch", "url", "repotype", "pubkey", "master", "archfilter"}

\* What is written of it.
DownloadWritten(new, obj) ==
  /\ Gets(new, "arch", obj, "arch", obj["arch"])
  /\ Gets(new, "url", obj, "url", obj["url"])
  /\ Gets(new, "repotype", obj, "repositoryType", obj["repositoryType"])
  /\ Gets(new, "pubkey", obj, "publicKey", obj["publicKey"])
  /\ Gets(new, "master", obj, "sslMaster",
          Take(obj["sslMaster"], [url |-> "url", fingerprint |-> "sslfingerprint"]))
  /\ Gets(new, "archfilter", obj, "architectureFilter", Joined(obj["architectureFilter"]))

\* What downloadToApi() makes of it.
LEMMA DownloadIsWritten ==
  ASSUME NEW obj, ListIsFilled(obj, "architectureFilter")
  PROVE  LET new == DownloadToApi(obj) IN
         IsObject(new) /\ DOMAIN new \subseteq WrittenOfDownload /\ DownloadWritten(new, obj)
<1> DEFINE p1 == Take(obj, [arch |-> "arch", url |-> "url", repositoryType |-> "repotype",
                            publicKey |-> "pubkey"])
           p2 == Child(obj, "sslMaster", "master", 
                       LAMBDA m : Take(m, [url |-> "url", fingerprint |-> "sslfingerprint"]))
           p3 == IF ListOf(obj, "architectureFilter", Copied) = <<>> THEN Empty
                 ELSE Child(obj, "architectureFilter", "archfilter", Joined)
           new == p1 @@ p2 @@ p3
<1>1. /\ DOMAIN p1 \subseteq {"arch", "url", "repotype", "pubkey"}
      /\ Gets(p1, "arch", obj, "arch", obj["arch"])
      /\ Gets(p1, "url", obj, "url", obj["url"])
      /\ Gets(p1, "repotype", obj, "repositoryType", obj["repositoryType"])
      /\ Gets(p1, "pubkey", obj, "publicKey", obj["publicKey"])
  <2> DEFINE names == [arch |-> "arch", url |-> "url", repositoryType |-> "repotype",
                      publicKey |-> "pubkey"]
  <2>1. /\ DOMAIN names = {"arch", "url", "repositoryType", "publicKey"}
        /\ names["arch"] = "arch" /\ names["url"] = "url"
        /\ names["repositoryType"] = "repotype" /\ names["publicKey"] = "pubkey"
    OBVIOUS
  <2> HIDE DEF names
  <2>2. OneToOne(names)
    BY <2>1 DEF OneToOne
  <2>3. \A m \in DOMAIN names : Gets(Take(obj, names), names[m], obj, m, obj[m])
    BY <2>2, OneTaken
  <2>4. DOMAIN Take(obj, names) \subseteq {names[m] : m \in DOMAIN names}
    BY <2>2, OneTaken
  <2> QED
    BY <2>1, <2>3, <2>4 DEF names
<1>2. /\ DOMAIN p2 \subseteq {"master"}
      /\ Gets(p2, "master", obj, "sslMaster",
              Take(obj["sslMaster"], [url |-> "url", fingerprint |-> "sslfingerprint"]))
  <2> DEFINE value == Take(obj["sslMaster"], [url |-> "url", fingerprint |-> "sslfingerprint"])
  <2>1. p2 = IF "sslMaster" \in DOMAIN obj THEN "master" :> value ELSE Empty
    BY DEF Child
  <2> HIDE DEF p2, value
  <2>2. DOMAIN p2 \subseteq {"master"} /\ Gets(p2, "master", obj, "sslMaster", value)
    BY <2>1, OneGot
  <2> QED
    BY <2>2 DEF value
<1>3. /\ DOMAIN p3 \subseteq {"archfilter"}
      /\ Gets(p3, "archfilter", obj, "architectureFilter", Joined(obj["architectureFilter"]))
  <2> DEFINE filter == obj["architectureFilter"]
             list == [i \in DOMAIN filter |-> filter[i]]
  <2>1. "architectureFilter" \in DOMAIN obj => list # <<>>
    <3>1. DOMAIN list = DOMAIN filter
      OBVIOUS
    <3> HIDE DEF list
    <3> QED
      BY <3>1 DEF ListIsFilled
  <2>2. p3 = IF "architectureFilter" \in DOMAIN obj THEN "archfilter" :> Joined(filter) ELSE Empty
    <3>1. CASE "architectureFilter" \in DOMAIN obj
      BY <2>1, <3>1 DEF Child, ListOf, Copied
    <3>2. CASE "architectureFilter" \notin DOMAIN obj
      BY <3>2 DEF Child, ListOf, Copied
    <3> QED
      BY <3>1, <3>2
  <2> HIDE DEF p3
  <2> QED
    BY <2>2, OneGot
<1> HIDE DEF p1, p2, p3
<1>4. OfThree(new, p1, p2, p3)
  BY ThreeParts
<1> HIDE DEF new
<1>5. DownloadToApi(obj) = new
  BY DEF DownloadToApi, new, p1, p2, p3
<1>6. IsObject(new) /\ DOMAIN new \subseteq WrittenOfDownload
  BY <1>1, <1>2, <1>3, <1>4
     DEF OfThree, WrittenOfDownload
<1>7. DownloadWritten(new, obj)
  BY <1>1, <1>2, <1>3, <1>4
     DEF OfThree, Gets, DownloadWritten
<1> QED
  BY <1>5, <1>6, <1>7

ReadOfRepository == {"block", "linkedBuild", "name", "rebuild", "arch", "path", "releaseTarget",
                     "downloadOnDemand"}

\* What is read of a repository.
RepositoryRead(new, obj) ==
  /\ Gets(new, "block", obj, "block", obj["block"])
  /\ Gets(new, "linkedBuild", obj, "linkedbuild", obj["linkedbuild"])
  /\ Gets(new, "name", obj, "name", obj["name"])
  /\ Gets(new, "rebuild", obj, "rebuild", obj["rebuild"])
  /\ Gets(new, "arch", obj, "arch", [i \in DOMAIN obj["arch"] |-> obj["arch"][i]])
  /\ Gets(new, "path", obj, "path", [i \in DOMAIN obj["path"] |-> obj["path"][i]])
  /\ Gets(new, "releaseTarget", obj, "releasetarget",
          [i \in DOMAIN obj["releasetarget"] |-> ReleaseTargetFromApi(obj["releasetarget"][i])])
  /\ Gets(new, "downloadOnDemand", obj, "download",
          [i \in DOMAIN obj["download"] |-> DownloadFromApi(obj["download"][i])])

\* What baseRepositoryFromApi() makes of an element.
LEMMA RepositoryIsRead ==
  ASSUME NEW obj, ListIsFilled(obj, "arch"), ListIsFilled(obj, "path"),
         ListIsFilled(obj, "releasetarget"), ListIsFilled(obj, "download")
  PROVE  LET new == BaseRepositoryFromApi(obj) IN
         IsObject(new) /\ DOMAIN new \subseteq ReadOfRepository /\ RepositoryRead(new, obj)
<1> DEFINE p1 == Take(obj, [block |-> "block", linkedbuild |-> "linkedBuild", name |-> "name",
                            rebuild |-> "rebuild"])
           p2 == Children(obj, "arch", "arch", Copied)
           p3 == Children(obj, "path", "path", Copied)
           p4 == Children(obj, "releasetarget", "releaseTarget", ReleaseTargetFromApi)
           p5 == Children(obj, "download", "downloadOnDemand", DownloadFromApi)
           new == p1 @@ p2 @@ p3 @@ p4 @@ p5
<1>1. /\ DOMAIN p1 \subseteq {"block", "linkedBuild", "name", "rebuild"}
      /\ Gets(p1, "block", obj, "block", obj["block"])
      /\ Gets(p1, "linkedBuild", obj, "linkedbuild", obj["linkedbuild"])
      /\ Gets(p1, "name", obj, "name", obj["name"])
      /\ Gets(p1, "rebuild", obj, "rebuild", obj["rebuild"])
  <2> DEFINE names == [block |-> "block", linkedbuild |-> "linkedBuild", name |-> "name",
                      rebuild |-> "rebuild"]
  <2>1. /\ DOMAIN names = {"block", "linkedbuild", "name", "rebuild"}
        /\ names["block"] = "block" /\ names["linkedbuild"] = "linkedBuild"
        /\ names["name"] = "name" /\ names["rebuild"] = "rebuild"
    OBVIOUS
  <2> HIDE DEF names
  <2>2. OneToOne(names)
    BY <2>1 DEF OneToOne
  <2>3. \A m \in DOMAIN names : Gets(Take(obj, names), names[m], obj, m, obj[m])
    BY <2>2, OneTaken
  <2>4. DOMAIN Take(obj, names) \subseteq {names[m] : m \in DOMAIN names}
    BY <2>2, OneTaken
  <2> QED
    BY <2>1, <2>3, <2>4 DEF names
<1>2. /\ DOMAIN p2 \subseteq {"arch"}
      /\ Gets(p2, "arch", obj, "arch", [i \in DOMAIN obj["arch"] |-> obj["arch"][i]])
  <2> DEFINE list == [i \in DOMAIN obj["arch"] |-> obj["arch"][i]]
  <2>1. "arch" \in DOMAIN obj => DOMAIN list # {}
    BY DEF ListIsFilled
  <2>2. p2 = ListIn(obj, "arch", "arch", list)
    BY DEF Children, ListOf, List, ListIn, Copied
  <2> HIDE DEF list
  <2>3. /\ DOMAIN p2 \subseteq {"arch"}
        /\ Gets(p2, "arch", obj, "arch", list)
    BY <2>1, <2>2, ListGot
  <2> QED
    BY <2>3 DEF list
<1>3. /\ DOMAIN p3 \subseteq {"path"}
      /\ Gets(p3, "path", obj, "path", [i \in DOMAIN obj["path"] |-> obj["path"][i]])
  <2> DEFINE list == [i \in DOMAIN obj["path"] |-> obj["path"][i]]
  <2>1. "path" \in DOMAIN obj => DOMAIN list # {}
    BY DEF ListIsFilled
  <2>2. p3 = ListIn(obj, "path", "path", list)
    BY DEF Children, ListOf, List, ListIn, Copied
  <2> HIDE DEF list
  <2>3. /\ DOMAIN p3 \subseteq {"path"}
        /\ Gets(p3, "path", obj, "path", list)
    BY <2>1, <2>2, ListGot
  <2> QED
    BY <2>3 DEF list
<1>4. /\ DOMAIN p4 \subseteq {"releaseTarget"}
      /\ Gets(p4, "releaseTarget", obj, "releasetarget",
              [i \in DOMAIN obj["releasetarget"] |-> ReleaseTargetFromApi(obj["releasetarget"][i])])
  <2> DEFINE list == [i \in DOMAIN obj["releasetarget"] |->
                       ReleaseTargetFromApi(obj["releasetarget"][i])]
  <2>1. "releasetarget" \in DOMAIN obj => DOMAIN list # {}
    BY DEF ListIsFilled
  <2>2. p4 = ListIn(obj, "releasetarget", "releaseTarget", list)
    BY DEF Children, ListOf, List, ListIn
  <2> HIDE DEF list
  <2>3. /\ DOMAIN p4 \subseteq {"releaseTarget"}
        /\ Gets(p4, "releaseTarget", obj, "releasetarget", list)
    BY <2>1, <2>2, ListGot
  <2> QED
    BY <2>3 DEF list
<1>5. /\ DOMAIN p5 \subseteq {"downloadOnDemand"}
      /\ Gets(p5, "downloadOnDemand", obj, "download",
              [i \in DOMAIN obj["download"] |-> DownloadFromApi(obj["download"][i])])
  <2> DEFINE list == [i \in DOMAIN obj["download"] |-> DownloadFromApi(obj["download"][i])]
  <2>1. "download" \in DOMAIN obj => DOMAIN list # {}
    BY DEF ListIsFilled
  <2>2. p5 = ListIn(obj, "download", "downloadOnDemand", list)
    BY DEF Children, ListOf, List, ListIn
  <2> HIDE DEF list
  <2>3. /\ DOMAIN p5 \subseteq {"downloadOnDemand"}
        /\ Gets(p5, "downloadOnDemand", obj, "download", list)
    BY <2>1, <2>2, ListGot
  <2> QED
    BY <2>3 DEF list
<1> HIDE DEF p1, p2, p3, p4, p5
<1>6. OfFive(new, p1, p2, p3, p4, p5)
  BY FiveParts
<1> HIDE DEF new
<1>7. BaseRepositoryFromApi(obj) = new
  BY DEF BaseRepositoryFromApi, new, p1, p2, p3, p4, p5
<1>8. IsObject(new) /\ DOMAIN new \subseteq ReadOfRepository
  BY <1>1, <1>2, <1>3, <1>4, <1>5, <1>6
     DEF OfFive, ReadOfRepository
<1>9. RepositoryRead(new, obj)
  BY <1>1, <1>2, <1>3, <1>4, <1>5, <1>6
     DEF OfFive, Gets, RepositoryRead
<1> QED
  BY <1>7, <1>8, <1>9

WrittenOfRepository == {"block", "linkedbuild", "name", "rebuild", "arch", "path",
                        "releasetarget", "download"}

\* What is written of it.
RepositoryWritten(new, obj) ==
  /\ Gets(new, "block", obj, "block", obj["block"])
  /\ Gets(new, "linkedbuild", obj, "linkedBuild", obj["linkedBuild"])
  /\ Gets(new, "name", obj, "name", obj["name"])
  /\ Gets(new, "rebuild", obj, "rebuild", obj["rebuild"])
  /\ Gets(new, "arch", obj, "arch", [i \in DOMAIN obj["arch"] |-> obj["arch"][i]])
  /\ Gets(new, "path", obj, "path", [i \in DOMAIN obj["path"] |-> obj["path"][i]])
  /\ Gets(new, "releasetarget", obj, "releaseTarget",
          [i \in DOMAIN obj["releaseTarget"] |-> ReleaseTargetToApi(obj["releaseTarget"][i])])
  /\ Gets(new, "download", obj, "downloadOnDemand",
          [i \in DOMAIN obj["downloadOnDemand"] |-> DownloadToApi(obj["downloadOnDemand"][i])])

\* What baseRepositoryToApi() makes of it.
LEMMA RepositoryIsWritten ==
  ASSUME NEW obj, ListIsFilled(obj, "arch"), ListIsFilled(obj, "path"),
         ListIsFilled(obj, "releaseTarget"), ListIsFilled(obj, "downloadOnDemand")
  PROVE  LET new == BaseRepositoryToApi(obj) IN
         IsObject(new) /\ DOMAIN new \subseteq WrittenOfRepository /\ RepositoryWritten(new, obj)
<1> DEFINE p1 == Take(obj, [block |-> "block", linkedBuild |-> "linkedbuild", name |-> "name",
                            rebuild |-> "rebuild"])
           p2 == Children(obj, "arch", "arch", Copied)
           p3 == Children(obj, "path", "path", Copied)
           p4 == Children(obj, "releaseTarget", "releasetarget", ReleaseTargetToApi)
           p5 == Children(obj, "downloadOnDemand", "download", DownloadToApi)
           new == p1 @@ p2 @@ p3 @@ p4 @@ p5
<1>1. /\ DOMAIN p1 \subseteq {"block", "linkedbuild", "name", "rebuild"}
      /\ Gets(p1, "block", obj, "block", obj["block"])
      /\ Gets(p1, "linkedbuild", obj, "linkedBuild", obj["linkedBuild"])
      /\ Gets(p1, "name", obj, "name", obj["name"])
      /\ Gets(p1, "rebuild", obj, "rebuild", obj["rebuild"])
  <2> DEFINE names == [block |-> "block", linkedBuild |-> "linkedbuild", name |-> "name",
                      rebuild |-> "rebuild"]
  <2>1. /\ DOMAIN names = {"block", "linkedBuild", "name", "rebuild"}
        /\ names["block"] = "block" /\ names["linkedBuild"] = "linkedbuild"
        /\ names["name"] = "name" /\ names["rebuild"] = "rebuild"
    OBVIOUS
  <2> HIDE DEF names
  <2>2. OneToOne(names)
    BY <2>1 DEF OneToOne
  <2>3. \A m \in DOMAIN names : Gets(Take(obj, names), names[m], obj, m, obj[m])
    BY <2>2, OneTaken
  <2>4. DOMAIN Take(obj, names) \subseteq {names[m] : m \in DOMAIN names}
    BY <2>2, OneTaken
  <2> QED
    BY <2>1, <2>3, <2>4 DEF names
<1>2. /\ DOMAIN p2 \subseteq {"arch"}
      /\ Gets(p2, "arch", obj, "arch", [i \in DOMAIN obj["arch"] |-> obj["arch"][i]])
  <2> DEFINE list == [i \in DOMAIN obj["arch"] |-> obj["arch"][i]]
  <2>1. "arch" \in DOMAIN obj => DOMAIN list # {}
    BY DEF ListIsFilled
  <2>2. p2 = ListIn(obj, "arch", "arch", list)
    BY DEF Children, ListOf, List, ListIn, Copied
  <2> HIDE DEF list
  <2>3. /\ DOMAIN p2 \subseteq {"arch"}
        /\ Gets(p2, "arch", obj, "arch", list)
    BY <2>1, <2>2, ListGot
  <2> QED
    BY <2>3 DEF list
<1>3. /\ DOMAIN p3 \subseteq {"path"}
      /\ Gets(p3, "path", obj, "path", [i \in DOMAIN obj["path"] |-> obj["path"][i]])
  <2> DEFINE list == [i \in DOMAIN obj["path"] |-> obj["path"][i]]
  <2>1. "path" \in DOMAIN obj => DOMAIN list # {}
    BY DEF ListIsFilled
  <2>2. p3 = ListIn(obj, "path", "path", list)
    BY DEF Children, ListOf, List, ListIn, Copied
  <2> HIDE DEF list
  <2>3. /\ DOMAIN p3 \subseteq {"path"}
        /\ Gets(p3, "path", obj, "path", list)
    BY <2>1, <2>2, ListGot
  <2> QED
    BY <2>3 DEF list
<1>4. /\ DOMAIN p4 \subseteq {"releasetarget"}
      /\ Gets(p4, "releasetarget", obj, "releaseTarget",
              [i \in DOMAIN obj["releaseTarget"] |-> ReleaseTargetToApi(obj["releaseTarget"][i])])
  <2> DEFINE list == [i \in DOMAIN obj["releaseTarget"] |->
                       ReleaseTargetToApi(obj["releaseTarget"][i])]
  <2>1. "releaseTarget" \in DOMAIN obj => DOMAIN list # {}
    BY DEF ListIsFilled
  <2>2. p4 = ListIn(obj, "releaseTarget", "releasetarget", list)
    BY DEF Children, ListOf, List, ListIn
  <2> HIDE DEF list
  <2>3. /\ DOMAIN p4 \subseteq {"releasetarget"}
        /\ Gets(p4, "releasetarget", obj, "releaseTarget", list)
    BY <2>1, <2>2, ListGot
  <2> QED
    BY <2>3 DEF list
<1>5. /\ DOMAIN p5 \subseteq {"download"}
      /\ Gets(p5, "download", obj, "downloadOnDemand",
              [i \in DOMAIN obj["downloadOnDemand"] |-> DownloadToApi(obj["downloadOnDemand"][i])])
  <2> DEFINE list == [i \in DOMAIN obj["downloadOnDemand"] |->
                       DownloadToApi(obj["downloadOnDemand"][i])]
  <2>1. "downloadOnDemand" \in DOMAIN obj => DOMAIN list # {}
    BY DEF ListIsFilled
  <2>2. p5 = ListIn(obj, "downloadOnDemand", "download", list)
    BY DEF Children, ListOf, List, ListIn
  <2> HIDE DEF list
  <2>3. /\ DOMAIN p5 \subseteq {"download"}
        /\ Gets(p5, "download", obj, "downloadOnDemand", list)
    BY <2>1, <2>2, ListGot
  <2> QED
    BY <2>3 DEF list
<1> HIDE DEF p1, p2, p3, p4, p5
<1>6. OfFive(new, p1, p2, p3, p4, p5)
  BY FiveParts
<1> HIDE DEF new
<1>7. BaseRepositoryToApi(obj) = new
  BY DEF BaseRepositoryToApi, new, p1, p2, p3, p4, p5
<1>8. IsObject(new) /\ DOMAIN new \subseteq WrittenOfRepository
  BY <1>1, <1>2, <1>3, <1>4, <1>5, <1>6
     DEF OfFive, WrittenOfRepository
<1>9. RepositoryWritten(new, obj)
  BY <1>1, <1>2, <1>3, <1>4, <1>5, <1>6
     DEF OfFive, Gets, RepositoryWritten
<1> QED
  BY <1>7, <1>8, <1>9

ReadOfAction == {"type", "source", "target", "person", "group", "options", "acceptInfo"}

\* Options that are given are read as some.
OptionIsRead(obj) == "options" \in DOMAIN obj => OptionsFromApi(obj["options"]) # Empty

\* What is read of an action.
ActionRead(new, obj) ==
  /\ Gets(new, "type", obj, "type", obj["type"])
  /\ Gets(new, "source", obj, "source", SourceFromApi(obj["source"]))
  /\ Gets(new, "target", obj, "target", TargetFromApi(obj["target"]))
  /\ Gets(new, "person", obj, "person", PartyFromApi(obj["person"]))
  /\ Gets(new, "group", obj, "group", PartyFromApi(obj["group"]))
  /\ Gets(new, "options", obj, "options", OptionsFromApi(obj["options"]))
  /\ Gets(new, "acceptInfo", obj, "acceptinfo", AcceptInfoFromApi(obj["acceptinfo"]))

\* What requestActionFromApi() makes of an element.
LEMMA ActionIsRead ==
  ASSUME NEW obj, OptionIsRead(obj)
  PROVE  LET new == ActionFromApi(obj) IN
         IsObject(new) /\ DOMAIN new \subseteq ReadOfAction /\ ActionRead(new, obj)
<1> DEFINE p1 == Take(obj, [type |-> "type"])
           p2 == Child(obj, "source", "source", SourceFromApi)
           p3 == Child(obj, "target", "target", TargetFromApi)
           p4 == Child(obj, "person", "person", PartyFromApi)
           p5 == Child(obj, "group", "group", PartyFromApi)
           p6 == IF "options" \in DOMAIN obj /\ OptionsFromApi(obj.options) = Empty THEN Empty
                 ELSE Child(obj, "options", "options", OptionsFromApi)
           p7 == Child(obj, "acceptinfo", "acceptInfo", AcceptInfoFromApi)
           first == p1 @@ p2 @@ p3 @@ p4 @@ p5
           new == first @@ p6 @@ p7
<1>1. /\ DOMAIN p1 \subseteq {"type"}
      /\ Gets(p1, "type", obj, "type", obj["type"])
  <2> DEFINE names == [type |-> "type"]
  <2>1. /\ DOMAIN names = {"type"}
        /\ names["type"] = "type"
    OBVIOUS
  <2> HIDE DEF names
  <2>2. OneToOne(names)
    BY <2>1 DEF OneToOne
  <2>3. \A m \in DOMAIN names : Gets(Take(obj, names), names[m], obj, m, obj[m])
    BY <2>2, OneTaken
  <2>4. DOMAIN Take(obj, names) \subseteq {names[m] : m \in DOMAIN names}
    BY <2>2, OneTaken
  <2> QED
    BY <2>1, <2>3, <2>4 DEF names
<1>2. /\ DOMAIN p2 \subseteq {"source"}
      /\ Gets(p2, "source", obj, "source", SourceFromApi(obj["source"]))
  BY OneGot DEF Child
<1>3. /\ DOMAIN p3 \subseteq {"target"}
      /\ Gets(p3, "target", obj, "target", TargetFromApi(obj["target"]))
  BY OneGot DEF Child
<1>4. /\ DOMAIN p4 \subseteq {"person"}
      /\ Gets(p4, "person", obj, "person", PartyFromApi(obj["person"]))
  BY OneGot DEF Child
<1>5. /\ DOMAIN p5 \subseteq {"group"}
      /\ Gets(p5, "group", obj, "group", PartyFromApi(obj["group"]))
  BY OneGot DEF Child
<1>6. /\ DOMAIN p6 \subseteq {"options"}
      /\ Gets(p6, "options", obj, "options", OptionsFromApi(obj["options"]))
  BY OneGot DEF Child, OptionIsRead
<1>7. /\ DOMAIN p7 \subseteq {"acceptInfo"}
      /\ Gets(p7, "acceptInfo", obj, "acceptinfo", AcceptInfoFromApi(obj["acceptinfo"]))
  BY OneGot DEF Child
<1> HIDE DEF p1, p2, p3, p4, p5, p6, p7
<1>8. OfFive(first, p1, p2, p3, p4, p5)
  BY FiveParts
<1> HIDE DEF first
<1>9. OfThree(new, first, p6, p7)
  BY ThreeParts
<1> HIDE DEF new
<1>10. ActionFromApi(obj) = new
  BY DEF ActionFromApi, new, first, p1, p2, p3, p4, p5, p6, p7
<1>11. IsObject(new) /\ DOMAIN new \subseteq ReadOfAction
  BY <1>1, <1>2, <1>3, <1>4, <1>5, <1>6, <1>7, <1>8, <1>9
     DEF OfFive, OfThree, ReadOfAction
<1>12. ActionRead(new, obj)
  BY <1>1, <1>2, <1>3, <1>4, <1>5, <1>6, <1>7, <1>8, <1>9
     DEF OfFive, OfThree, Gets, ActionRead
<1> QED
  BY <1>10, <1>11, <1>12

WrittenOfAction == {"type", "source", "target", "person", "group", "options", "acceptinfo"}

\* What is written of it.
ActionWritten(new, obj) ==
  /\ Gets(new, "type", obj, "type", obj["type"])
  /\ Gets(new, "source", obj, "source", SourceToApi(obj["source"]))
  /\ Gets(new, "target", obj, "target", TargetToApi(obj["target"]))
  /\ Gets(new, "person", obj, "person", PartyToApi(obj["person"]))
  /\ Gets(new, "group", obj, "group", PartyToApi(obj["group"]))
  /\ Gets(new, "options", obj, "options", OptionsToApi(obj["options"]))
  /\ Gets(new, "acceptinfo", obj, "acceptInfo", AcceptInfoToApi(obj["acceptInfo"]))

\* What requestActionToApi() makes of it.
LEMMA ActionIsWritten ==
  ASSUME NEW obj
  PROVE  LET new == ActionToApi(obj) IN
         IsObject(new) /\ DOMAIN new \subseteq WrittenOfAction /\ ActionWritten(new, obj)
<1> DEFINE p1 == Take(obj, [type |-> "type"])
           p2 == Child(obj, "source", "source", SourceToApi)
           p3 == Child(obj, "target", "target", TargetToApi)
           p4 == Child(obj, "person", "person", PartyToApi)
           p5 == Child(obj, "group", "group", PartyToApi)
           p6 == Child(obj, "options", "options", OptionsToApi)
           p7 == Child(obj, "acceptInfo", "acceptinfo", AcceptInfoToApi)
           first == p1 @@ p2 @@ p3 @@ p4 @@ p5
           new == first @@ p6 @@ p7
<1>1. /\ DOMAIN p1 \subseteq {"type"}
      /\ Gets(p1, "type", obj, "type", obj["type"])
  <2> DEFINE names == [type |-> "type"]
  <2>1. /\ DOMAIN names = {"type"}
        /\ names["type"] = "type"
    OBVIOUS
  <2> HIDE DEF names
  <2>2. OneToOne(names)
    BY <2>1 DEF OneToOne
  <2>3. \A m \in DOMAIN names : Gets(Take(obj, names), names[m], obj, m, obj[m])
    BY <2>2, OneTaken
  <2>4. DOMAIN Take(obj, names) \subseteq {names[m] : m \in DOMAIN names}
    BY <2>2, OneTaken
  <2> QED
    BY <2>1, <2>3, <2>4 DEF names
<1>2. /\ DOMAIN p2 \subseteq {"source"}
      /\ Gets(p2, "source", obj, "source", SourceToApi(obj["source"]))
  BY OneGot DEF Child
<1>3. /\ DOMAIN p3 \subseteq {"target"}
      /\ Gets(p3, "target", obj, "target", TargetToApi(obj["target"]))
  BY OneGot DEF Child
<1>4. /\ DOMAIN p4 \subseteq {"person"}
      /\ Gets(p4, "person", obj, "person", PartyToApi(obj["person"]))
  BY OneGot DEF Child
<1>5. /\ DOMAIN p5 \subseteq {"group"}
      /\ Gets(p5, "group", obj, "group", PartyToApi(obj["group"]))
  BY OneGot DEF Child
<1>6. /\ DOMAIN p6 \subseteq {"options"}
      /\ Gets(p6, "options", obj, "options", OptionsToApi(obj["options"]))
  BY OneGot DEF Child
<1>7. /\ DOMAIN p7 \subseteq {"acceptinfo"}
      /\ Gets(p7, "acceptinfo", obj, "acceptInfo", AcceptInfoToApi(obj["acceptInfo"]))
  BY OneGot DEF Child
<1> HIDE DEF p1, p2, p3, p4, p5, p6, p7
<1>8. OfFive(first, p1, p2, p3, p4, p5)
  BY FiveParts
<1> HIDE DEF first
<1>9. OfThree(new, first, p6, p7)
  BY ThreeParts
<1> HIDE DEF new
<1>10. ActionToApi(obj) = new
  BY DEF ActionToApi, new, first, p1, p2, p3, p4, p5, p6, p7
<1>11. IsObject(new) /\ DOMAIN new \subseteq WrittenOfAction
  BY <1>1, <1>2, <1>3, <1>4, <1>5, <1>6, <1>7, <1>8, <1>9
     DEF OfFive, OfThree, WrittenOfAction
<1>12. ActionWritten(new, obj)
  BY <1>1, <1>2, <1>3, <1>4, <1>5, <1>6, <1>7, <1>8, <1>9
     DEF OfFive, OfThree, Gets, ActionWritten
<1> QED
  BY <1>10, <1>11, <1>12

-----------------------------------------------------------------------------
(* Elements with defaults                                                  *)

\* A list in a reply.
LEMMA ListHas ==
  ASSUME NEW S, NEW list \in ListsOf(S)
  PROVE  IsObject(list) /\ DOMAIN list # {} /\ \A i \in DOMAIN list : list[i] \in S
<1>1. list \in Seq(S) /\ list # <<>>
  BY DEF ListsOf
<1>2. list \in [1..Len(list) -> S] /\ Len(list) \in Nat
  BY <1>1
<1>3. Len(list) # 0
  BY <1>1
<1> QED
  BY <1>2, <1>3 DEF IsObject

\* Nothing changes for members that keep their names.
LEMMA TakenAsIs ==
  ASSUME NEW obj, NEW names, IsObject(obj), OneToOne(names),
         \A m \in DOMAIN obj : m \in DOMAIN names /\ names[m] = m
  PROVE  Take(obj, names) = obj
<1> DEFINE took == Take(obj, names)
<1>1. Renamed(took, obj, names)
  BY AllTaken
<1> HIDE DEF took
<1>2. DOMAIN took = DOMAIN obj /\ \A m \in DOMAIN obj : took[m] = obj[m]
  BY <1>1 DEF Renamed
<1>3. took = obj
  BY <1>1, <1>2, SameMembers DEF Renamed
<1> QED
  BY <1>3 DEF took

LEMMA LinkIsRead ==
  ASSUME NEW link \in Links
  PROVE  LinkFromApi(link) = link @@ "vrevmode" :> "standard"
<1> DEFINE names == [project |-> "project", vrevmode |-> "vrevmode"]
<1>1. IsObject(link) /\ DOMAIN link \subseteq {"project", "vrevmode"}
  <2>1. DOMAIN [project |-> STRING, vrevmode |-> STRING] = {"project", "vrevmode"}
    OBVIOUS
  <2> QED
    BY <2>1, Membered DEF Links
<1>2. DOMAIN names = {"project", "vrevmode"} /\ \A m \in DOMAIN names : names[m] = m
  OBVIOUS
<1>3. LinkFromApi(link) = Take(link, names) @@ "vrevmode" :> "standard"
  BY DEF LinkFromApi
<1> HIDE DEF names
<1>4. Take(link, names) = link
  BY <1>1, <1>2, TakenAsIs DEF OneToOne
<1> QED
  BY <1>3, <1>4

\* That nothing is released is not written, everything else is.
LEMMA ReleaseTargetIsKept ==
  ASSUME NEW target \in Targets
  PROVE  ReleaseTargetToApi(ReleaseTargetFromApi(target)) = ExplicitTarget(target)
<1> DEFINE all == [project |-> "project", repository |-> "repository", trigger |-> "trigger"]
           always == [project |-> "project", repository |-> "repository"]
           read == target @@ "trigger" :> NoRelease
           took == Take(read, always)
           rest == IF read.trigger = NoRelease THEN Empty ELSE "trigger" :> read.trigger
           written == took @@ rest
           explicit == ExplicitTarget(target)
<1>1. /\ IsObject(target) /\ DOMAIN target \subseteq {"project", "repository", "trigger"}
  <2>1. DOMAIN [project |-> STRING, repository |-> STRING, trigger |-> STRING]
          = {"project", "repository", "trigger"}
    OBVIOUS
  <2> QED
    BY <2>1, Membered DEF Targets
<1>2. DOMAIN all = {"project", "repository", "trigger"} /\ \A m \in DOMAIN all : all[m] = m
  OBVIOUS
<1>3. ReleaseTargetFromApi(target) = Take(target, all) @@ "trigger" :> NoRelease
  BY DEF ReleaseTargetFromApi
<1> HIDE DEF all
<1>4. Take(target, all) = target
  BY <1>1, <1>2, TakenAsIs DEF OneToOne
<1>5. OfTwo(read, target, "trigger" :> NoRelease)
  BY TwoParts
<1>6. DOMAIN ("trigger" :> NoRelease) = {"trigger"} /\ ("trigger" :> NoRelease)["trigger"] = NoRelease
  BY OneMember
<1>7. ReleaseTargetFromApi(target) = read
  BY <1>3, <1>4
<1>8. ReleaseTargetToApi(read) = written
  BY DEF ReleaseTargetToApi
<1> HIDE DEF read
<1>9. /\ DOMAIN read = DOMAIN target \cup {"trigger"}
      /\ \A m \in DOMAIN target : read[m] = target[m]
      /\ "trigger" \notin DOMAIN target => read["trigger"] = NoRelease
  BY <1>5, <1>6 DEF OfTwo
<1>10. DOMAIN always = {"project", "repository"} /\ \A m \in DOMAIN always : always[m] = m
  OBVIOUS
<1> HIDE DEF always
<1>11. OneToOne(always)
  BY <1>10 DEF OneToOne
<1>12. \A m \in DOMAIN always : Gets(took, always[m], read, m, read[m])
  BY <1>11, OneTaken
<1>13. DOMAIN took \subseteq {always[m] : m \in DOMAIN always}
  BY <1>11, OneTaken
<1>14. /\ rest = IF read["trigger"] = NoRelease THEN Empty ELSE "trigger" :> read["trigger"]
  OBVIOUS
<1>15. OfTwo(written, took, rest)
  BY TwoParts
<1> HIDE DEF took, rest, written
<1>16. /\ read["trigger"] = NoRelease => DOMAIN rest = {}
       /\ read["trigger"] # NoRelease =>
            DOMAIN rest = {"trigger"} /\ rest["trigger"] = read["trigger"]
  BY <1>14, OneMember, NoMember
<1>17. /\ IsObject(explicit)
       /\ DOMAIN explicit = {m \in DOMAIN target : m # "trigger" \/ target[m] # NoRelease}
       /\ \A m \in DOMAIN explicit : explicit[m] = target[m]
  BY DEF ExplicitTarget, IsObject
<1> HIDE DEF explicit
<1>18. DOMAIN took = DOMAIN target \cap {"project", "repository"}
  BY <1>9, <1>10, <1>12, <1>13 DEF Gets
<1>19. \A m \in DOMAIN took : took[m] = target[m]
  BY <1>9, <1>10, <1>12, <1>18 DEF Gets
<1>20. DOMAIN written = DOMAIN explicit
  BY <1>1, <1>9, <1>15, <1>16, <1>17, <1>18 DEF OfTwo
<1>21. \A m \in DOMAIN written : written[m] = explicit[m]
  BY <1>1, <1>9, <1>15, <1>16, <1>17, <1>18, <1>19, <1>20 DEF OfTwo
<1>22. written = explicit
  BY <1>15, <1>17, <1>20, <1>21, SameMembers DEF OfTwo
<1> QED
  BY <1>7, <1>8, <1>22 DEF explicit

LEMMA SourceIsKept ==
  ASSUME NEW obj \in Sources
  PROVE  SourceToApi(SourceFromApi(obj)) = obj
<1> DEFINE names == [project |-> "projectName", package |-> "packageName", rev |-> "revision"]
           back == [projectName |-> "project", packageName |-> "package", revision |-> "rev"]
           short == [projectName |-> "project"]
           read == Take(obj, names)
<1>1. /\ IsObject(obj) /\ DOMAIN obj \subseteq {"project", "package", "rev"}
      /\ "rev" \in DOMAIN obj => "package" \in DOMAIN obj
  <2>1. DOMAIN [project |-> STRING, package |-> STRING, rev |-> STRING]
          = {"project", "package", "rev"}
    OBVIOUS
  <2> QED
    BY <2>1, Membered DEF Sources
<1>2. /\ DOMAIN names = {"project", "package", "rev"}
      /\ names["project"] = "projectName" /\ names["package"] = "packageName"
      /\ names["rev"] = "revision"
  OBVIOUS
<1>3. /\ DOMAIN back = {"projectName", "packageName", "revision"}
      /\ back["projectName"] = "project" /\ back["packageName"] = "package"
      /\ back["revision"] = "rev"
  OBVIOUS
<1>4. DOMAIN short = {"projectName"} /\ short["projectName"] = "project"
  OBVIOUS
<1>5. SourceFromApi(obj) = read
  BY DEF SourceFromApi
<1>6. SourceToApi(read) = Take(read, IF "packageName" \in DOMAIN read THEN back ELSE short)
  BY DEF SourceToApi
<1> HIDE DEF names, back, short
<1>7. OneToOne(names) /\ OneToOne(back) /\ OneToOne(short)
  BY <1>2, <1>3, <1>4 DEF OneToOne
<1>8. \A m \in DOMAIN names : Gets(read, names[m], obj, m, obj[m])
  BY <1>7, OneTaken
<1>9. "packageName" \in DOMAIN read <=> "package" \in DOMAIN obj
  BY <1>2, <1>8 DEF Gets
<1>10. CASE "package" \in DOMAIN obj
  <2>1. Take(Take(obj, names), back) = obj
    <3>1. \A m \in DOMAIN obj :
            m \in DOMAIN names /\ names[m] \in DOMAIN back /\ back[names[m]] = m
      BY <1>1, <1>2, <1>3
    <3> QED
      BY <1>1, <1>7, <3>1, TakenBack
  <2> QED
    BY <1>5, <1>6, <1>9, <1>10, <2>1
<1>11. CASE "package" \notin DOMAIN obj
  <2>1. Take(Take(obj, names), short) = obj
    <3>1. \A m \in DOMAIN obj :
            m \in DOMAIN names /\ names[m] \in DOMAIN short /\ short[names[m]] = m
      BY <1>1, <1>2, <1>4, <1>11
    <3> QED
      BY <1>1, <1>7, <3>1, TakenBack
  <2> QED
    BY <1>5, <1>6, <1>9, <1>11, <2>1
<1> QED
  BY <1>10, <1>11

\* What requestOptionsFromApi() makes of options, and what is sent for them: always
\* whether the origin is made older.
LEMMA OptionsAreKept ==
  ASSUME NEW obj, IsObject(obj), DOMAIN obj \subseteq {"sourceupdate", "makeoriginolder"},
         "makeoriginolder" \in DOMAIN obj => obj["makeoriginolder"] \in {"true", "false"}
  PROVE  /\ OptionsToApi(OptionsFromApi(obj)) = obj @@ "makeoriginolder" :> "false"
         /\ obj # Empty => OptionsFromApi(obj) # Empty
<1> DEFINE names == [sourceupdate |-> "sourceUpdate"]
           back == [sourceUpdate |-> "sourceupdate"]
           update == Take(obj, names)
           older == Child(obj, "makeoriginolder", "makeOriginOlder",
                          LAMBDA text : text = "true")
           read == update @@ older
           text == IF "makeOriginOlder" \in DOMAIN read /\ read.makeOriginOlder
                   THEN "true" ELSE "false"
           sent == Take(read, back)
           written == sent @@ "makeoriginolder" :> text
           wanted == obj @@ "makeoriginolder" :> "false"
<1>1. OptionsFromApi(obj) = read
  BY DEF OptionsFromApi
<1>2. OptionsToApi(read) = written
  BY DEF OptionsToApi
<1>3. /\ DOMAIN names = {"sourceupdate"} /\ names["sourceupdate"] = "sourceUpdate"
      /\ DOMAIN back = {"sourceUpdate"} /\ back["sourceUpdate"] = "sourceupdate"
  OBVIOUS
<1> HIDE DEF names, back
<1>4. OneToOne(names) /\ OneToOne(back)
  BY <1>3 DEF OneToOne
<1>5. /\ DOMAIN update \subseteq {"sourceUpdate"}
      /\ Gets(update, "sourceUpdate", obj, "sourceupdate", obj["sourceupdate"])
  <2>1. DOMAIN update \subseteq {names[m] : m \in DOMAIN names}
    BY <1>4, OneTaken
  <2>2. \A m \in DOMAIN names : Gets(update, names[m], obj, m, obj[m])
    BY <1>4, OneTaken
  <2> QED
    BY <1>3, <2>1, <2>2
<1>6. /\ DOMAIN older \subseteq {"makeOriginOlder"}
      /\ Gets(older, "makeOriginOlder", obj, "makeoriginolder",
              obj["makeoriginolder"] = "true")
  <2> DEFINE value == obj["makeoriginolder"] = "true"
  <2>1. older = IF "makeoriginolder" \in DOMAIN obj THEN "makeOriginOlder" :> value ELSE Empty
    BY DEF Child
  <2> HIDE DEF older, value
  <2>2. /\ DOMAIN older \subseteq {"makeOriginOlder"}
        /\ Gets(older, "makeOriginOlder", obj, "makeoriginolder", value)
    BY <2>1, OneGot
  <2> QED
    BY <2>2 DEF value
<1>7. OfTwo(read, update, older)
  BY TwoParts
<1>8. text = IF "makeOriginOlder" \in DOMAIN read /\ read["makeOriginOlder"]
             THEN "true" ELSE "false"
  OBVIOUS
<1>9. OfTwo(written, sent, "makeoriginolder" :> text)
  BY TwoParts
<1>10. OfTwo(wanted, obj, "makeoriginolder" :> "false")
  BY TwoParts
<1> HIDE DEF update, older, read, text
<1>11. /\ DOMAIN sent \subseteq {"sourceupdate"}
       /\ Gets(sent, "sourceupdate", read, "sourceUpdate", read["sourceUpdate"])
  <2>1. DOMAIN sent \subseteq {back[m] : m \in DOMAIN back}
    BY <1>4, OneTaken
  <2>2. \A m \in DOMAIN back : Gets(sent, back[m], read, m, read[m])
    BY <1>4, OneTaken
  <2> QED
    BY <1>3, <2>1, <2>2
<1> HIDE DEF sent, written, wanted
<1>12. /\ "sourceUpdate" \in DOMAIN read <=> "sourceupdate" \in DOMAIN obj
       /\ "sourceupdate" \in DOMAIN obj => read["sourceUpdate"] = obj["sourceupdate"]
       /\ "makeOriginOlder" \in DOMAIN read <=> "makeoriginolder" \in DOMAIN obj
       /\ "makeoriginolder" \in DOMAIN obj =>
            read["makeOriginOlder"] = (obj["makeoriginolder"] = "true")
  BY <1>5, <1>6, <1>7 DEF OfTwo, Gets
<1>13. text = IF "makeoriginolder" \in DOMAIN obj THEN obj["makeoriginolder"] ELSE "false"
  <2>1. CASE "makeoriginolder" \in DOMAIN obj /\ obj["makeoriginolder"] = "true"
    BY <1>8, <1>12, <2>1
  <2>2. CASE "makeoriginolder" \in DOMAIN obj /\ obj["makeoriginolder"] = "false"
    <3>1. "makeOriginOlder" \in DOMAIN read /\ read["makeOriginOlder"] = FALSE
      BY <1>12, <2>2
    <3> QED
      BY <1>8, <2>2, <3>1
  <2>3. CASE "makeoriginolder" \notin DOMAIN obj
    BY <1>8, <1>12, <2>3
  <2> QED
    BY <2>1, <2>2, <2>3
<1>14. /\ DOMAIN ("makeoriginolder" :> text) = {"makeoriginolder"}
       /\ ("makeoriginolder" :> text)["makeoriginolder"] = text
       /\ DOMAIN ("makeoriginolder" :> "false") = {"makeoriginolder"}
       /\ ("makeoriginolder" :> "false")["makeoriginolder"] = "false"
  BY OneMember
<1>15. DOMAIN written = DOMAIN wanted
  BY <1>9, <1>10, <1>11, <1>12, <1>14 DEF OfTwo, Gets
<1>16. \A m \in DOMAIN written : written[m] = wanted[m]
  <2> DEFINE mine == "makeoriginolder" :> text
             other == "makeoriginolder" :> "false"
  <2>1. /\ DOMAIN mine = {"makeoriginolder"} /\ mine["makeoriginolder"] = text
        /\ DOMAIN other = {"makeoriginolder"} /\ other["makeoriginolder"] = "false"
    BY <1>14
  <2>2. OfTwo(written, sent, mine) /\ OfTwo(wanted, obj, other)
    BY <1>9, <1>10
  <2> HIDE DEF mine, other
  <2>3. /\ "sourceupdate" \in DOMAIN written => written["sourceupdate"] = wanted["sourceupdate"]
        /\ written["makeoriginolder"] = wanted["makeoriginolder"]
    BY <1>11, <1>12, <1>13, <2>1, <2>2 DEF OfTwo, Gets
  <2>4. DOMAIN written \subseteq {"sourceupdate", "makeoriginolder"}
    BY <1>11, <2>1, <2>2 DEF OfTwo
  <2> QED
    BY <2>3, <2>4
<1>17. written = wanted
  BY <1>9, <1>10, <1>15, <1>16, SameMembers DEF OfTwo
<1>18. obj # Empty => read # Empty
  <2>1. ASSUME obj # Empty PROVE DOMAIN obj # {}
    BY <2>1, NoMember, SameMembers
  <2>2. DOMAIN obj # {} => DOMAIN read # {}
    BY <1>12
  <2> QED
    BY <2>1, <2>2, NoMember
<1> QED
  BY <1>1, <1>2, <1>17, <1>18 DEF wanted

\* What the members of an action are.
LEMMA ActionHas ==
  ASSUME NEW api \in Actions
  PROVE  /\ IsObject(api)
         /\ DOMAIN api \subseteq
              {"type", "source", "target", "person", "group", "options", "acceptinfo"}
         /\ "source" \in DOMAIN api => SourceToApi(SourceFromApi(api["source"])) = api["source"]
         /\ "target" \in DOMAIN api => TargetToApi(TargetFromApi(api["target"])) = api["target"]
         /\ \A m \in {"person", "group"} :
              m \in DOMAIN api => PartyToApi(PartyFromApi(api[m])) = api[m]
         /\ "options" \in DOMAIN api =>
              OptionsToApi(OptionsFromApi(api["options"]))
                = api["options"] @@ "makeoriginolder" :> "false"
         /\ OptionIsRead(api)
         /\ "acceptinfo" \in DOMAIN api =>
              AcceptInfoToApi(AcceptInfoFromApi(api["acceptinfo"])) = api["acceptinfo"]
<1> DEFINE targets == [project |-> STRING, package |-> STRING,
                       releaseproject |-> STRING, repository |-> STRING]
           parties == [name |-> STRING, role |-> STRING]
           options == [sourceupdate |-> STRING, makeoriginolder |-> {"true", "false"}]
           infos == [rev |-> STRING, srcmd5 |-> STRING, osrcmd5 |-> STRING,
                     oproject |-> STRING, opackage |-> STRING,
                     xsrcmd5 |-> STRING, oxsrcmd5 |-> STRING]
           Infos == Objects(infos, {"rev", "srcmd5", "osrcmd5"})
           members == [type |-> STRING, source |-> Sources,
                       target |-> Objects(targets, {"project"}),
                       person |-> Objects(parties, {"name"}),
                       group |-> Objects(parties, {"name"}),
                       options |-> Objects(options, {}) \ {Empty},
                       acceptinfo |-> Infos]
<1>1. Actions = Objects(members, {"type"})
  BY DEF Actions
<1>2. DOMAIN targets = {"project", "package", "releaseproject", "repository"}
  OBVIOUS
<1>3. DOMAIN parties = {"name", "role"}
  OBVIOUS
<1>4. /\ DOMAIN options = {"sourceupdate", "makeoriginolder"}
      /\ options["makeoriginolder"] = {"true", "false"}
  OBVIOUS
<1>5. DOMAIN infos = {"rev", "srcmd5", "osrcmd5", "oproject", "opackage", "xsrcmd5", "oxsrcmd5"}
  OBVIOUS
<1> HIDE DEF targets, parties, options, infos
<1>6. /\ DOMAIN members =
           {"type", "source", "target", "person", "group", "options", "acceptinfo"}
      /\ members["source"] = Sources /\ members["target"] = Objects(targets, {"project"})
      /\ members["person"] = Objects(parties, {"name"})
      /\ members["group"] = Objects(parties, {"name"})
      /\ members["options"] = Objects(options, {}) \ {Empty}
      /\ members["acceptinfo"] = Infos
  OBVIOUS
<1> HIDE DEF members
<1>7. /\ IsObject(api) /\ DOMAIN api \subseteq DOMAIN members
      /\ \A m \in DOMAIN api : api[m] \in members[m]
  BY <1>1, Membered
<1>8. "source" \in DOMAIN api => SourceToApi(SourceFromApi(api["source"])) = api["source"]
  BY <1>6, <1>7, SourceIsKept
<1>9. ASSUME NEW target \in Objects(targets, {"project"})
      PROVE  TargetToApi(TargetFromApi(target)) = target
  BY <1>2, Membered, TargetIsKept
<1>10. ASSUME NEW party \in Objects(parties, {"name"})
       PROVE  PartyToApi(PartyFromApi(party)) = party
  BY <1>3, Membered, PartyIsKept
<1>11. ASSUME NEW given \in Objects(options, {}) \ {Empty}
       PROVE  /\ OptionsToApi(OptionsFromApi(given)) = given @@ "makeoriginolder" :> "false"
              /\ OptionsFromApi(given) # Empty
  <2>1. /\ IsObject(given) /\ DOMAIN given \subseteq {"sourceupdate", "makeoriginolder"}
        /\ "makeoriginolder" \in DOMAIN given => given["makeoriginolder"] \in {"true", "false"}
    BY <1>4, Membered
  <2> QED
    BY <2>1, OptionsAreKept
<1>12. ASSUME NEW info \in Infos
       PROVE  AcceptInfoToApi(AcceptInfoFromApi(info)) = info
  BY <1>5, Membered, AcceptInfoIsKept
<1> HIDE DEF Infos
<1>13. "target" \in DOMAIN api => TargetToApi(TargetFromApi(api["target"])) = api["target"]
  BY <1>6, <1>7, <1>9
<1>14. \A m \in {"person", "group"} :
         m \in DOMAIN api => PartyToApi(PartyFromApi(api[m])) = api[m]
  BY <1>6, <1>7, <1>10
<1>15. "options" \in DOMAIN api =>
         /\ OptionsToApi(OptionsFromApi(api["options"]))
              = api["options"] @@ "makeoriginolder" :> "false"
         /\ OptionsFromApi(api["options"]) # Empty
  BY <1>6, <1>7, <1>11
<1>16. "acceptinfo" \in DOMAIN api =>
         AcceptInfoToApi(AcceptInfoFromApi(api["acceptinfo"])) = api["acceptinfo"]
  BY <1>6, <1>7, <1>12
<1> QED
  BY <1>6, <1>7, <1>8, <1>13, <1>14, <1>15, <1>16 DEF OptionIsRead

\* An action that is read and sent again (requestActionFromApi, requestActionToApi).
LEMMA ActionIsKept ==
  ASSUME NEW api \in Actions
  PROVE  ActionSurvives(api)
<1> DEFINE read == ActionFromApi(api)
           written == ActionToApi(read)
           normal == NormalAction(api)
<1>1. /\ IsObject(api) /\ DOMAIN api \subseteq WrittenOfAction
      /\ OptionIsRead(api)
  BY ActionHas DEF WrittenOfAction
<1>2. ActionRead(read, api)
  BY <1>1, ActionIsRead
<1> HIDE DEF read
<1>3. IsObject(written) /\ DOMAIN written \subseteq WrittenOfAction /\ ActionWritten(written, read)
  BY ActionIsWritten
<1>4. /\ IsObject(normal) /\ DOMAIN normal = DOMAIN api
      /\ \A m \in DOMAIN api : m # "options" => normal[m] = api[m]
      /\ "options" \in DOMAIN api =>
           normal["options"] = api["options"] @@ "makeoriginolder" :> "false"
  BY DEF NormalAction, IsObject
<1> HIDE DEF written, normal
<1>5. ASSUME NEW m \in WrittenOfAction PROVE Gets(written, m, normal, m, normal[m])
  <2>1. CASE m = "type"
    BY <1>2, <1>3, <1>4, <2>1 DEF ActionRead, ActionWritten, Gets
  <2>2. CASE m \in {"source", "target"}
    BY <1>2, <1>3, <1>4, <2>2, ActionHas DEF ActionRead, ActionWritten, Gets
  <2>3. CASE m \in {"person", "group"}
    BY <1>2, <1>3, <1>4, <2>3, ActionHas DEF ActionRead, ActionWritten, Gets
  <2>4. CASE m = "options"
    BY <1>2, <1>3, <1>4, <2>4, ActionHas DEF ActionRead, ActionWritten, Gets
  <2>5. CASE m = "acceptinfo"
    BY <1>2, <1>3, <1>4, <2>5, ActionHas DEF ActionRead, ActionWritten, Gets
  <2> QED
    BY <2>1, <2>2, <2>3, <2>4, <2>5 DEF WrittenOfAction
<1>6. written = normal
  BY <1>1, <1>3, <1>4, <1>5, SameObject
<1> QED
  BY <1>6 DEF ActionSurvives, read, written, normal

-----------------------------------------------------------------------------
(* Reviews                                                                 *)

\* An object that has of another one the members with some names.
Keeps(new, obj, names) ==
  /\ DOMAIN new = DOMAIN obj \cap names
  /\ \A m \in DOMAIN new : new[m] = obj[m]

\* Of what is taken under new names and taken back, the values are the same.
LEMMA PartIsBack ==
  ASSUME NEW obj, NEW names, NEW back, OneToOne(names), OneToOne(back),
         \A m \in DOMAIN names : names[m] \in DOMAIN back /\ back[names[m]] = m
  PROVE  Keeps(Take(Take(obj, names), back), obj, DOMAIN names)
<1> DEFINE took == Take(obj, names)
           new == Take(took, back)
<1>1. /\ DOMAIN took \subseteq {names[m] : m \in DOMAIN names}
      /\ \A m \in DOMAIN names : Gets(took, names[m], obj, m, obj[m])
  BY OneTaken
<1> HIDE DEF took
<1>2. \A n \in DOMAIN back : Gets(new, back[n], took, n, took[n])
  BY OneTaken
<1>3. DOMAIN new \subseteq {back[n] : n \in DOMAIN back}
  BY OneTaken
<1> HIDE DEF new
<1>4. \A m \in DOMAIN names : Gets(new, m, took, names[m], took[names[m]])
  BY <1>2
<1>5. \A m \in DOMAIN new : m \in DOMAIN obj /\ m \in DOMAIN names
  <2>1. SUFFICES ASSUME NEW m \in DOMAIN new PROVE m \in DOMAIN obj /\ m \in DOMAIN names
    OBVIOUS
  <2>2. PICK n \in DOMAIN back : m = back[n] /\ n \in DOMAIN took
    BY <1>2, <1>3 DEF Gets
  <2>3. PICK k \in DOMAIN names : n = names[k]
    BY <1>1, <2>2
  <2> QED
    BY <1>1, <2>2, <2>3 DEF Gets
<1>6. DOMAIN new = DOMAIN obj \cap DOMAIN names
  BY <1>1, <1>4, <1>5 DEF Gets
<1>7. ASSUME NEW m \in DOMAIN new PROVE new[m] = obj[m]
  <2>1. m \in DOMAIN names /\ m \in DOMAIN obj
    BY <1>6, <1>7
  <2>2. names[m] \in DOMAIN took /\ took[names[m]] = obj[m]
    BY <1>1, <2>1 DEF Gets
  <2> QED
    BY <1>4, <2>1, <2>2 DEF Gets
<1>8. Keeps(new, obj, DOMAIN names)
  BY <1>6, <1>7 DEF Keeps
<1> QED
  BY <1>8 DEF took, new

NamesOfReviewers == {"by_user", "by_group", "by_project", "by_package"}

\* Who is asked for a review stays the same (requestReviewFromApi,
\* requestReviewToApi).
LEMMA ReviewerIsKept ==
  ASSUME NEW api,
         \/ DOMAIN api \cap NamesOfReviewers = {"by_user"}
         \/ DOMAIN api \cap NamesOfReviewers = {"by_group"}
         \/ DOMAIN api \cap NamesOfReviewers \in {{"by_project"}, {"by_project", "by_package"}}
  PROVE  Keeps(ReviewerToApi(ReviewerFromApi(api)), api, NamesOfReviewers)
<1>1. CASE DOMAIN api \cap NamesOfReviewers = {"by_user"}
  <2> DEFINE names == [by_user |-> "userId"]
             back == [userId |-> "by_user"]
             took == Take(api, names)
  <2>1. ReviewerFromApi(api) = took
    BY <1>1 DEF ReviewerFromApi
  <2>2. /\ DOMAIN names = {"by_user"} /\ names["by_user"] = "userId"
        /\ DOMAIN back = {"userId"} /\ back["userId"] = "by_user"
    OBVIOUS
  <2>3. ReviewerToApi(took) = IF "userId" \in DOMAIN took THEN Take(took, back)
                              ELSE ReviewerToApi(took)
    BY DEF ReviewerToApi
  <2> HIDE DEF names, back
  <2>4. OneToOne(names) /\ OneToOne(back)
    BY <2>2 DEF OneToOne
  <2>5. "userId" \in DOMAIN took
    BY <1>1, <2>2, <2>4, OneTaken DEF Gets
  <2>6. Keeps(Take(took, back), api, DOMAIN names)
    BY <2>2, <2>4, PartIsBack
  <2> HIDE DEF took
  <2> QED
    BY <1>1, <2>1, <2>2, <2>3, <2>5, <2>6 DEF Keeps
<1>2. CASE DOMAIN api \cap NamesOfReviewers = {"by_group"}
  <2> DEFINE names == [by_group |-> "groupId"]
             back == [groupId |-> "by_group"]
             took == Take(api, names)
  <2>1. ReviewerFromApi(api) = took
    BY <1>2 DEF ReviewerFromApi, NamesOfReviewers
  <2>2. /\ DOMAIN names = {"by_group"} /\ names["by_group"] = "groupId"
        /\ DOMAIN back = {"groupId"} /\ back["groupId"] = "by_group"
    OBVIOUS
  <2>3. ReviewerToApi(took) = IF "userId" \notin DOMAIN took /\ "groupId" \in DOMAIN took
                              THEN Take(took, back) ELSE ReviewerToApi(took)
    BY DEF ReviewerToApi
  <2> HIDE DEF names, back
  <2>4. OneToOne(names) /\ OneToOne(back)
    BY <2>2 DEF OneToOne
  <2>5. "userId" \notin DOMAIN took /\ "groupId" \in DOMAIN took
    <3>1. \A m \in DOMAIN names : Gets(took, names[m], api, m, api[m])
      BY <2>4, OneTaken
    <3>2. DOMAIN took \subseteq {names[m] : m \in DOMAIN names}
      BY <2>4, OneTaken
    <3> QED
      BY <1>2, <2>2, <3>1, <3>2 DEF Gets
  <2>6. Keeps(Take(took, back), api, DOMAIN names)
    BY <2>2, <2>4, PartIsBack
  <2> HIDE DEF took
  <2> QED
    BY <1>2, <2>1, <2>2, <2>3, <2>5, <2>6 DEF Keeps
<1>3. CASE DOMAIN api \cap NamesOfReviewers \in {{"by_project"}, {"by_project", "by_package"}}
  <2> DEFINE names == [by_project |-> "projectName", by_package |-> "packageName"]
             back == [projectName |-> "by_project", packageName |-> "by_package"]
             took == Take(api, names)
  <2>1. ReviewerFromApi(api) = took
    BY <1>3 DEF ReviewerFromApi, NamesOfReviewers
  <2>2. /\ DOMAIN names = {"by_project", "by_package"}
        /\ names["by_project"] = "projectName" /\ names["by_package"] = "packageName"
        /\ DOMAIN back = {"projectName", "packageName"}
        /\ back["projectName"] = "by_project" /\ back["packageName"] = "by_package"
    OBVIOUS
  <2>3. ReviewerToApi(took) = IF "userId" \notin DOMAIN took /\ "groupId" \notin DOMAIN took
                              THEN Take(took, back) ELSE ReviewerToApi(took)
    BY DEF ReviewerToApi
  <2> HIDE DEF names, back
  <2>4. OneToOne(names) /\ OneToOne(back)
    BY <2>2 DEF OneToOne
  <2>5. "userId" \notin DOMAIN took /\ "groupId" \notin DOMAIN took
    <3>2. DOMAIN took \subseteq {names[m] : m \in DOMAIN names}
      BY <2>4, OneTaken
    <3> QED
      BY <2>2, <3>2
  <2>6. Keeps(Take(took, back), api, DOMAIN names)
    BY <2>2, <2>4, PartIsBack
  <2>7. DOMAIN api \cap DOMAIN names = DOMAIN api \cap NamesOfReviewers
    BY <1>3, <2>2 DEF NamesOfReviewers
  <2> HIDE DEF took
  <2> QED
    BY <2>1, <2>3, <2>5, <2>6, <2>7 DEF Keeps
<1> QED
  BY <1>1, <1>2, <1>3

\* A review that names somebody is read and sent again as it was, one that names
\* nobody is rejected.
LEMMA SameReviewer ==
  ASSUME NEW review, NEW other,
         \A m \in NamesOfReviewers : /\ m \in DOMAIN other <=> m \in DOMAIN review
                                     /\ m \in DOMAIN review => other[m] = review[m]
  PROVE  ReviewerFromApi(other) = ReviewerFromApi(review)
<1> DEFINE user == [by_user |-> "userId"]
           group == [by_group |-> "groupId"]
           place == [by_project |-> "projectName", by_package |-> "packageName"]
<1>1. \A names \in {user, group, place} :
        OneToOne(names) /\ DOMAIN names \subseteq NamesOfReviewers
  BY DEF OneToOne, NamesOfReviewers
<1>2. \A names \in {user, group, place} : Take(other, names) = Take(review, names)
  <2> HIDE DEF user, group, place
  <2> QED
    BY <1>1, TakenAlike
<1>3. {"by_user", "by_group"} \subseteq NamesOfReviewers
  BY DEF NamesOfReviewers
<1> QED
  BY <1>2, <1>3 DEF ReviewerFromApi

LEMMA ReviewIsKept ==
  ASSUME NEW by \in Reviewers, NEW review \in Reviews
  PROVE  ReviewSurvives(by @@ review)
<1> SUFFICES ASSUME NEW api, api = by @@ review
             PROVE  ReviewSurvives(api)
  OBVIOUS
<1> DEFINE entries == [who |-> STRING, when |-> Times,
                       description |-> STRING, comment |-> STRING]
           Entries == Objects(entries, {"who", "when", "description"})
           members == [state |-> STRING, who |-> STRING, when |-> Times,
                       comment |-> STRING, history |-> ListsOf(Entries)]
           rest == {"state", "who", "when", "comment"}
<1>1. Reviews = Objects(members, {"state"})
  BY DEF Reviews
<1>2. DOMAIN entries = {"who", "when", "description", "comment"}
  OBVIOUS
<1> HIDE DEF entries
<1>3. /\ DOMAIN members = rest \cup {"history"}
      /\ members["history"] = ListsOf(Entries)
  OBVIOUS
<1> HIDE DEF members
<1>4. /\ IsObject(review) /\ DOMAIN review \subseteq rest \cup {"history"}
      /\ "history" \in DOMAIN review => review["history"] \in ListsOf(Entries)
  BY <1>1, <1>3, Membered
<1>5. \/ DOMAIN by = {"by_user"} \/ DOMAIN by = {"by_group"} \/ DOMAIN by = {"by_project"}
      \/ DOMAIN by = {"by_project", "by_package"} \/ DOMAIN by = {}
  BY OneMember, NoMember DEF Reviewers
<1>6. OfTwo(api, by, review)
  BY TwoParts
<1>7. /\ IsObject(api) /\ DOMAIN api = DOMAIN by \cup DOMAIN review
      /\ DOMAIN api \cap NamesOfReviewers = DOMAIN by
      /\ DOMAIN api \subseteq NamesOfReviewers \cup rest \cup {"history"}
      /\ "history" \in DOMAIN api =>
           /\ IsObject(api["history"]) /\ DOMAIN api["history"] # {}
           /\ \A i \in DOMAIN api["history"] : api["history"][i] \in Entries
  <2>1. /\ IsObject(api) /\ DOMAIN api = DOMAIN by \cup DOMAIN review
        /\ DOMAIN api \cap NamesOfReviewers = DOMAIN by
        /\ DOMAIN api \subseteq NamesOfReviewers \cup rest \cup {"history"}
    BY <1>4, <1>5, <1>6 DEF OfTwo, NamesOfReviewers
  <2>2. "history" \in DOMAIN api =>
          api["history"] = review["history"] /\ review["history"] \in ListsOf(Entries)
    BY <1>4, <1>5, <1>6 DEF OfTwo
  <2> HIDE DEF Entries
  <2> QED
    BY <2>1, <2>2, ListHas
<1>8. ASSUME NEW entry \in Entries
      PROVE  /\ HistoryToApi(HistoryFromApi(entry)) = Converted(entry, "when", InUtc)
             /\ HistoryFromApi(Converted(entry, "when", InUtc)) = HistoryFromApi(entry)
  BY <1>2, Membered, EntryIsKept
<1> HIDE DEF Entries
<1>9. CASE DOMAIN by = {}
  <2>1. {"by_user", "by_group", "by_project"} \cap DOMAIN api = {}
    BY <1>7, <1>9 DEF NamesOfReviewers
  <2>2. ReviewFromApi(api) = Rejected
    BY <2>1 DEF ReviewFromApi
  <2> QED
    BY <2>2 DEF ReviewSurvives
<1>10. CASE DOMAIN by # {}
  <2> DEFINE names == [state |-> "state", who |-> "reviewedBy", when |-> "reviewedAt",
                       comment |-> "comment"]
             back == [state |-> "state", reviewedBy |-> "who", reviewedAt |-> "when",
                      comment |-> "comment"]
             who == ReviewerFromApi(api)
             list == ListOf(api, "history", HistoryFromApi)
             r1 == "requestedReviewer" :> who
             dated == Converted(api, "when", DateOf)
             utc == ReviewInUtc(api)
             entriesInUtc == [i \in DOMAIN api["history"] |->
                                Converted(api["history"][i], "when", InUtc)]
             r2 == Take(dated, names)
             r3 == "reviewHistory" :> list
             read == r1 @@ r2 @@ r3
             w1 == ReviewerToApi(read["requestedReviewer"])
             took == Take(read, back)
             w2 == Converted(took, "when", ToISOString)
             w3 == Children(read, "reviewHistory", "history", HistoryToApi)
             written == w1 @@ w2 @@ w3
             again == ReviewerToApi(who)
  <2>1. ReviewFromApi(api) = read
    BY <1>5, <1>7, <1>10 DEF ReviewFromApi, List, NamesOfReviewers
  <2>2. ReviewToApi(read) = written
    BY DEF ReviewToApi
  <2>3. /\ DOMAIN names = rest
        /\ names["state"] = "state" /\ names["who"] = "reviewedBy"
        /\ names["when"] = "reviewedAt" /\ names["comment"] = "comment"
    OBVIOUS
  <2>4. /\ DOMAIN back = {"state", "reviewedBy", "reviewedAt", "comment"}
        /\ back["state"] = "state" /\ back["reviewedBy"] = "who"
        /\ back["reviewedAt"] = "when" /\ back["comment"] = "comment"
    OBVIOUS
  <2> HIDE DEF names, back
  <2>5. OneToOne(names) /\ OneToOne(back)
    BY <2>3, <2>4 DEF OneToOne
  <2>6. Keeps(again, api, NamesOfReviewers)
    BY <1>5, <1>7, <1>10, ReviewerIsKept
  <2>7. DOMAIN r1 = {"requestedReviewer"} /\ r1["requestedReviewer"] = who
    BY OneMember
  <2>8. DOMAIN r3 = {"reviewHistory"} /\ r3["reviewHistory"] = list
    BY OneMember
  <2>9. DOMAIN r2 \subseteq {"state", "reviewedBy", "reviewedAt", "comment"}
    <3>1. DOMAIN r2 \subseteq {names[m] : m \in DOMAIN names}
      BY <2>5, OneTaken
    <3> QED
      BY <2>3, <3>1
  <2>10. \A m \in rest : Gets(r2, names[m], dated, m, dated[m])
    BY <2>3, <2>5, OneTaken
  <2>11. /\ IsObject(dated) /\ DOMAIN dated = DOMAIN api
         /\ \A m \in DOMAIN api :
              dated[m] = IF m = "when" THEN DateOf(api[m]) ELSE api[m]
    BY DEF Converted, IsObject
  <2>12. /\ IsObject(utc) /\ DOMAIN utc = DOMAIN api
         /\ \A m \in DOMAIN api :
              utc[m] = IF m = "when" THEN InUtc(api[m])
                       ELSE IF m = "history" THEN entriesInUtc ELSE api[m]
    BY DEF ReviewInUtc, Converted, IsObject
  <2>13. IsObject(entriesInUtc) /\ DOMAIN entriesInUtc = DOMAIN api["history"]
    BY DEF IsObject
  <2>14. \A i \in DOMAIN api["history"] :
           entriesInUtc[i] = Converted(api["history"][i], "when", InUtc)
    OBVIOUS
  <2>15. OfThree(read, r1, r2, r3)
    BY ThreeParts
  <2>16. /\ "history" \notin DOMAIN api => list = <<>>
         /\ "history" \in DOMAIN api =>
              /\ DOMAIN list = DOMAIN api["history"]
              /\ \A i \in DOMAIN list : list[i] = HistoryFromApi(api["history"][i])
    BY DEF ListOf
  <2> HIDE DEF who, list, r1, r2, r3, dated, utc, entriesInUtc
  <2>17. OfThree(written, w1, w2, w3)
    BY ThreeParts
  <2> HIDE DEF read
  <2>18. read["requestedReviewer"] = who
    BY <2>7, <2>15 DEF OfThree
  <2>19. w1 = again
    BY <2>18
  <2>20. "reviewHistory" \in DOMAIN read /\ read["reviewHistory"] = list
    BY <2>7, <2>8, <2>9, <2>15 DEF OfThree
  <2>21. /\ DOMAIN w2 = DOMAIN took
         /\ \A m \in DOMAIN took :
              w2[m] = IF m = "when" THEN ToISOString(took[m]) ELSE took[m]
    BY DEF Converted
  <2>22. DOMAIN w2 \subseteq rest
    <3>1. DOMAIN took \subseteq {back[m] : m \in DOMAIN back}
      BY <2>5, OneTaken
    <3> QED
      BY <2>4, <2>21, <3>1
  <2>23. \A n \in DOMAIN back : Gets(took, back[n], read, n, read[n])
    BY <2>5, OneTaken
  <2> HIDE DEF took, w2
  <2>24. ASSUME NEW m \in rest PROVE Gets(w2, m, api, m, utc[m])
    <3>1. Gets(read, names[m], dated, m, dated[m])
      BY <2>3, <2>7, <2>8, <2>9, <2>10, <2>15 DEF OfThree, Gets
    <3>2. Gets(took, m, read, names[m], read[names[m]])
      BY <2>3, <2>4, <2>23
    <3>3. Gets(took, m, api, m, dated[m])
      BY <2>11, <3>1, <3>2 DEF Gets
    <3>4. m # "history"
      OBVIOUS
    <3>5. m \in DOMAIN api =>
            utc[m] = IF m = "when" THEN ToISOString(dated[m]) ELSE dated[m]
      BY <2>11, <2>12, <3>4 DEF InUtc
    <3> QED
      BY <2>21, <3>3, <3>5 DEF Gets
  <2>25. DOMAIN w3 \subseteq {"history"} /\ Gets(w3, "history", api, "history", utc["history"])
    <3> DEFINE new == [i \in DOMAIN list |-> HistoryToApi(list[i])]
    <3>1. w3 = IF new = <<>> THEN Empty ELSE "history" :> new
      BY <2>20 DEF Children, ListOf, List
    <3>2. CASE "history" \notin DOMAIN api
      <4>1. new = <<>>
        BY <2>16, <3>2
      <4> HIDE DEF new, w3
      <4> QED
        BY <3>1, <3>2, <4>1, NoMember DEF Gets
    <3>3. CASE "history" \in DOMAIN api
      <4>1. IsObject(new) /\ DOMAIN new = DOMAIN api["history"]
        BY <2>16, <3>3 DEF IsObject
      <4>2. \A i \in DOMAIN new : new[i] = entriesInUtc[i]
        <5>1. ASSUME NEW i \in DOMAIN api["history"] PROVE new[i] = entriesInUtc[i]
          <6>1. new[i] = HistoryToApi(list[i]) /\ list[i] = HistoryFromApi(api["history"][i])
            BY <2>16, <3>3
          <6> QED
            BY <1>7, <1>8, <2>14, <3>3, <6>1
        <5> QED
          BY <4>1, <5>1
      <4> HIDE DEF new, w3
      <4>3. new = entriesInUtc
        BY <2>13, <4>1, <4>2, SameMembers
      <4>4. new # <<>>
        BY <1>7, <3>3, <4>1
      <4>5. w3 = "history" :> entriesInUtc
        BY <3>1, <4>3, <4>4
      <4>6. DOMAIN w3 = {"history"} /\ w3["history"] = utc["history"]
        BY <2>12, <3>3, <4>5, OneMember
      <4> QED
        BY <3>3, <4>6 DEF Gets
    <3> QED
      BY <3>2, <3>3
  <2> HIDE DEF w1, w2, w3, written, again
  <2>26. IsObject(written) /\ DOMAIN written = DOMAIN api
    BY <1>7, <2>6, <2>17, <2>19, <2>22, <2>24, <2>25 DEF OfThree, Gets, Keeps, NamesOfReviewers
  <2>27. \A m \in DOMAIN written : written[m] = utc[m]
    <3>1. ASSUME NEW m \in DOMAIN api PROVE written[m] = utc[m]
      <4>1. CASE m \in NamesOfReviewers
        <5>1. m \in DOMAIN w1 /\ w1[m] = utc[m]
          BY <2>6, <2>19, <2>12, <4>1 DEF Keeps, NamesOfReviewers
        <5> QED
          BY <2>17, <5>1 DEF OfThree
      <4>2. CASE m \in rest
        <5>1. m \notin DOMAIN w1
          BY <2>6, <2>19, <4>2 DEF Keeps, NamesOfReviewers
        <5> QED
          BY <2>17, <2>24, <4>2, <5>1 DEF OfThree, Gets
      <4>3. CASE m = "history"
        <5>1. m \notin DOMAIN w1 /\ m \notin DOMAIN w2
          BY <2>6, <2>19, <2>22, <4>3 DEF Keeps, NamesOfReviewers
        <5> QED
          BY <2>17, <2>25, <4>3, <5>1 DEF OfThree, Gets
      <4> QED
        BY <1>7, <4>1, <4>2, <4>3
    <3> QED
      BY <2>26, <3>1
  <2>28. written = utc
    BY <2>26, <2>27, <2>12, SameMembers
  <2>29. ReviewerFromApi(utc) = who
    <3>1. \A m \in NamesOfReviewers : /\ m \in DOMAIN utc <=> m \in DOMAIN api
                                      /\ m \in DOMAIN api => utc[m] = api[m]
      BY <2>12 DEF NamesOfReviewers
    <3> HIDE DEF utc
    <3>2. ReviewerFromApi(utc) = ReviewerFromApi(api)
      BY <3>1, SameReviewer
    <3> QED
      BY <3>2 DEF who
  <2>30. Take(Converted(utc, "when", DateOf), names) = r2
    <3> DEFINE again2 == Converted(utc, "when", DateOf)
    <3>1. /\ DOMAIN again2 = DOMAIN utc
          /\ \A m \in DOMAIN utc :
               again2[m] = IF m = "when" THEN DateOf(utc[m]) ELSE utc[m]
      BY DEF Converted
    <3> HIDE DEF again2
    <3>2. \A m \in rest : /\ m \in DOMAIN dated <=> m \in DOMAIN again2
                          /\ m \in DOMAIN dated => dated[m] = again2[m]
      <4>1. ASSUME NEW m \in rest, m \in DOMAIN api PROVE dated[m] = again2[m]
        <5>1. CASE m = "when"
          BY <2>11, <2>12, <3>1, <4>1, <5>1, ReadAsWritten DEF InUtc
        <5>2. CASE m # "when"
          BY <2>11, <2>12, <3>1, <4>1, <5>2
        <5> QED
          BY <5>1, <5>2
      <4>2. DOMAIN dated = DOMAIN api /\ DOMAIN again2 = DOMAIN api
        BY <2>11, <2>12, <3>1
      <4> HIDE DEF rest
      <4> QED
        BY <4>1, <4>2
    <3>3. Take(dated, names) = Take(again2, names)
      BY <2>3, <2>5, <3>2, TakenAlike
    <3> QED
      BY <3>3 DEF again2, r2
  <2>31. ListOf(utc, "history", HistoryFromApi) = list
    <3>1. CASE "history" \notin DOMAIN api
      BY <2>16, <2>12, <3>1 DEF ListOf
    <3>2. CASE "history" \in DOMAIN api
      <4> DEFINE new == [i \in DOMAIN entriesInUtc |-> HistoryFromApi(entriesInUtc[i])]
      <4>1. ListOf(utc, "history", HistoryFromApi) = new
        BY <2>12, <3>2 DEF ListOf
      <4>2. IsObject(new) /\ DOMAIN new = DOMAIN api["history"]
        BY <2>13 DEF IsObject
      <4>3. IsObject(list)
        BY <3>2 DEF list, ListOf, IsObject
      <4>4. ASSUME NEW i \in DOMAIN api["history"] PROVE new[i] = list[i]
        <5>1. new[i] = HistoryFromApi(entriesInUtc[i])
          BY <2>13
        <5> QED
          BY <1>7, <1>8, <2>16, <2>14, <3>2, <5>1
      <4> HIDE DEF new
      <4>5. new = list
        BY <2>16, <3>2, <4>2, <4>3, <4>4, SameMembers
      <4> QED
        BY <4>1, <4>5
    <3> QED
      BY <3>1, <3>2
  <2>32. ReviewFromApi(utc) = read
    <3>1. {"by_user", "by_group", "by_project"} \cap DOMAIN utc # {}
      BY <1>5, <1>7, <1>10, <2>12 DEF NamesOfReviewers
    <3>2. ReviewFromApi(utc)
            = "requestedReviewer" :> ReviewerFromApi(utc)
              @@ Take(Converted(utc, "when", DateOf), names)
              @@ "reviewHistory" :> ListOf(utc, "history", HistoryFromApi)
      BY <3>1 DEF ReviewFromApi, List, names
    <3> QED
      BY <2>29, <2>30, <2>31, <3>2 DEF read, r1, r3
  <2> QED
    BY <2>1, <2>2, <2>28, <2>32 DEF ReviewSurvives, utc
<1> QED
  BY <1>9, <1>10

-----------------------------------------------------------------------------
(* Metas that are read and written again                                   *)

LEMMA ClearFlagIsKept ==
  ASSUME NEW api \in ClearFlags
  PROVE  FlagToApi(FlagFromApi(api)) = api
<1>1. /\ api \in FlagApis /\ ~Contradictory(api)
      /\ api.enable[Bare] < 2 /\ api.disable[Bare] < 2
  BY DEF ClearFlags
<1>2. \A list \in Lists : list[Bare] < 2 => DefaultOnce(list) = list
  <2> SUFFICES ASSUME NEW list \in Lists, list[Bare] < 2 PROVE DefaultOnce(list) = list
    OBVIOUS
  <2>1. list[Bare] = IF list[Bare] > 0 THEN 1 ELSE 0
    BY BareIsSwitch DEF Lists
  <2> QED
    BY <2>1 DEF DefaultOnce, Lists
<1> QED
  BY <1>1, <1>2, FlagIsKept, FlagsHaveLists DEF FlagSurvives

LEMMA SimpleFlagIsKept ==
  ASSUME NEW flag \in SimpleFlags
  PROVE  BooleanToSimpleFlag(SimpleFlagToBoolean(flag)) = flag
<1>1. CASE flag = "enable"
  BY <1>1 DEF BooleanToSimpleFlag, SimpleFlagToBoolean
<1>2. CASE flag = "disable"
  BY <1>2 DEF BooleanToSimpleFlag, SimpleFlagToBoolean
<1> QED
  BY <1>1, <1>2 DEF SimpleFlags

\* What holds for the members that projects and packages have in common.
CommonHolds(api) ==
  /\ ListIsFilled(api, "person") /\ ListIsFilled(api, "group")
  /\ \A m \in {"build", "debuginfo", "publish", "useforbuild"} :
       m \in DOMAIN api => FlagToApi(FlagFromApi(api[m])) = api[m]
  /\ \A m \in {"lock", "sourceaccess"} :
       m \in DOMAIN api => BooleanToSimpleFlag(SimpleFlagToBoolean(api[m])) = api[m]
  /\ "person" \in DOMAIN api =>
       /\ IsObject(api["person"])
       /\ \A i \in DOMAIN api["person"] :
            UserToApi(UserFromApi(api["person"][i])) = api["person"][i]
  /\ "group" \in DOMAIN api =>
       /\ IsObject(api["group"])
       /\ \A i \in DOMAIN api["group"] :
            GroupToApi(GroupFromApi(api["group"][i])) = api["group"][i]

LEMMA CommonHas ==
  ASSUME NEW members, NEW required, NEW api \in Objects(members, required),
         \A m \in DOMAIN CommonMembers :
           m \in DOMAIN members /\ members[m] = CommonMembers[m]
  PROVE  CommonHolds(api)
<1> DEFINE Users == [userid : STRING, role : STRING]
           Groups == [groupid : STRING, role : STRING]
<1>1. ASSUME NEW user \in Users PROVE UserToApi(UserFromApi(user)) = user
  <2>1. IsObject(user) /\ DOMAIN user \subseteq {"userid", "role"}
    BY DEF IsObject
  <2> QED
    BY <2>1, UserIsKept
<1>2. ASSUME NEW group \in Groups PROVE GroupToApi(GroupFromApi(group)) = group
  <2>1. IsObject(group) /\ DOMAIN group \subseteq {"groupid", "role"}
    BY DEF IsObject
  <2> QED
    BY <2>1, GroupIsKept
<1> DEFINE flags == {"build", "debuginfo", "publish", "useforbuild"}
           simple == {"lock", "sourceaccess"}
<1>3. /\ flags \cup simple \cup {"person", "group"} \subseteq DOMAIN CommonMembers
      /\ \A m \in flags : CommonMembers[m] = ClearFlags
      /\ \A m \in simple : CommonMembers[m] = SimpleFlags
      /\ CommonMembers["person"] = ListsOf(Users)
      /\ CommonMembers["group"] = ListsOf(Groups)
  BY DEF CommonMembers
<1>4. \A m \in DOMAIN api : api[m] \in members[m]
  BY Membered
<1> HIDE DEF Users, Groups
<1>5. /\ \A m \in flags : m \in DOMAIN api => api[m] \in ClearFlags
      /\ \A m \in simple : m \in DOMAIN api => api[m] \in SimpleFlags
      /\ "person" \in DOMAIN api => api["person"] \in ListsOf(Users)
      /\ "group" \in DOMAIN api => api["group"] \in ListsOf(Groups)
  BY <1>3, <1>4
<1>6. "person" \in DOMAIN api =>
        /\ IsObject(api["person"]) /\ DOMAIN api["person"] # {}
        /\ \A i \in DOMAIN api["person"] :
             UserToApi(UserFromApi(api["person"][i])) = api["person"][i]
  BY <1>1, <1>5, ListHas
<1>7. "group" \in DOMAIN api =>
        /\ IsObject(api["group"]) /\ DOMAIN api["group"] # {}
        /\ \A i \in DOMAIN api["group"] :
             GroupToApi(GroupFromApi(api["group"][i])) = api["group"][i]
  BY <1>2, <1>5, ListHas
<1>8. \A m \in flags : m \in DOMAIN api => FlagToApi(FlagFromApi(api[m])) = api[m]
  BY <1>5, ClearFlagIsKept
<1>9. \A m \in simple :
        m \in DOMAIN api => BooleanToSimpleFlag(SimpleFlagToBoolean(api[m])) = api[m]
  BY <1>5, SimpleFlagIsKept
<1> QED
  BY <1>6, <1>7, <1>8, <1>9 DEF CommonHolds, ListIsFilled

\* What is read of them can be written, and is written as it was read.
LEMMA CommonIsFilled ==
  ASSUME NEW api, NEW read, CommonHolds(api), CommonRead(read, api)
  PROVE  ListIsFilled(read, "person") /\ ListIsFilled(read, "group")
BY DEF CommonHolds, CommonRead, Gets, ListIsFilled

LEMMA CommonIsKept ==
  ASSUME NEW api, NEW read, NEW written,
         CommonHolds(api), CommonRead(read, api), CommonWritten(written, read)
  PROVE  \A m \in WrittenNames : Gets(written, m, api, m, api[m])
<1>1. ASSUME NEW m \in WrittenNames
      PROVE  Gets(written, m, api, m, api[m])
  <2>1. CASE m \in PlainNames
    BY <2>1 DEF CommonRead, CommonWritten, Gets
  <2>2. CASE m \in {"build", "debuginfo", "publish", "useforbuild"}
    BY <2>2 DEF CommonRead, CommonWritten, CommonHolds, Gets
  <2>3. CASE m \in {"lock", "sourceaccess"}
    BY <2>3 DEF CommonRead, CommonWritten, CommonHolds, Gets
  <2>4. CASE m = "person"
    <3>1. /\ Gets(read, m, api, m, [i \in DOMAIN api[m] |-> UserFromApi(api[m][i])])
          /\ Gets(written, m, read, m, [i \in DOMAIN read[m] |-> UserToApi(read[m][i])])
      BY <2>4 DEF CommonRead, CommonWritten
    <3>2. m \in DOMAIN api =>
            /\ IsObject(api[m])
            /\ \A i \in DOMAIN api[m] : UserToApi(UserFromApi(api[m][i])) = api[m][i]
      BY <2>4 DEF CommonHolds
    <3>3. ASSUME m \in DOMAIN api PROVE written[m] = api[m]
      <4>1. read[m] = [i \in DOMAIN api[m] |-> UserFromApi(api[m][i])]
        BY <3>1, <3>3 DEF Gets
      <4>2. written[m] = [i \in DOMAIN read[m] |-> UserToApi(read[m][i])]
        BY <3>1, <3>3 DEF Gets
      <4>3. DOMAIN written[m] = DOMAIN api[m] /\ IsObject(written[m])
        BY <4>1, <4>2 DEF IsObject
      <4>4. \A i \in DOMAIN written[m] : written[m][i] = api[m][i]
        BY <3>2, <3>3, <4>1, <4>2
      <4> QED
        BY <3>2, <3>3, <4>3, <4>4, SameMembers
    <3> QED
      BY <3>1, <3>3 DEF Gets
  <2>5. CASE m = "group"
    <3>1. /\ Gets(read, m, api, m, [i \in DOMAIN api[m] |-> GroupFromApi(api[m][i])])
          /\ Gets(written, m, read, m, [i \in DOMAIN read[m] |-> GroupToApi(read[m][i])])
      BY <2>5 DEF CommonRead, CommonWritten
    <3>2. m \in DOMAIN api =>
            /\ IsObject(api[m])
            /\ \A i \in DOMAIN api[m] : GroupToApi(GroupFromApi(api[m][i])) = api[m][i]
      BY <2>5 DEF CommonHolds
    <3>3. ASSUME m \in DOMAIN api PROVE written[m] = api[m]
      <4>1. read[m] = [i \in DOMAIN api[m] |-> GroupFromApi(api[m][i])]
        BY <3>1, <3>3 DEF Gets
      <4>2. written[m] = [i \in DOMAIN read[m] |-> GroupToApi(read[m][i])]
        BY <3>1, <3>3 DEF Gets
      <4>3. DOMAIN written[m] = DOMAIN api[m] /\ IsObject(written[m])
        BY <4>1, <4>2 DEF IsObject
      <4>4. \A i \in DOMAIN written[m] : written[m][i] = api[m][i]
        BY <3>2, <3>3, <4>1, <4>2
      <4> QED
        BY <3>2, <3>3, <4>3, <4>4, SameMembers
    <3> QED
      BY <3>1, <3>3 DEF Gets
  <2> QED
    BY <2>1, <2>2, <2>3, <2>4, <2>5 DEF WrittenNames
<1> QED
  BY <1>1

\* A download is written as it was read.
LEMMA DownloadIsKept ==
  ASSUME NEW api \in Downloads
  PROVE  DownloadToApi(DownloadFromApi(api)) = api
<1> DEFINE Filters == {Joined(names) : names \in ListsOf(STRING)}
           Masters == [url : STRING, sslfingerprint : STRING]
           members == [arch |-> STRING, url |-> STRING, repotype |-> STRING, pubkey |-> STRING,
                       archfilter |-> Filters, master |-> Masters]
           read == DownloadFromApi(api)
           written == DownloadToApi(read)
<1>1. Downloads = Objects(members, {"arch", "url", "repotype"})
  BY DEF Downloads
<1>2. /\ DOMAIN members = WrittenOfDownload
      /\ members["archfilter"] = Filters /\ members["master"] = Masters
  BY DEF WrittenOfDownload
<1> HIDE DEF members
<1>3. /\ IsObject(api) /\ DOMAIN api \subseteq WrittenOfDownload
      /\ "archfilter" \in DOMAIN api => api["archfilter"] \in Filters
      /\ "master" \in DOMAIN api => api["master"] \in Masters
  <2>1. /\ IsObject(api) /\ DOMAIN api \subseteq DOMAIN members
        /\ \A m \in DOMAIN api : api[m] \in members[m]
    BY <1>1, Membered
  <2> QED
    BY <1>2, <2>1
<1>4. "archfilter" \in DOMAIN api =>
        /\ Joined(Split(api["archfilter"])) = api["archfilter"]
        /\ DOMAIN Split(api["archfilter"]) # {}
  <2>1. ASSUME "archfilter" \in DOMAIN api
        PROVE  /\ Joined(Split(api["archfilter"])) = api["archfilter"]
               /\ DOMAIN Split(api["archfilter"]) # {}
    <3>1. PICK names \in ListsOf(STRING) : api["archfilter"] = Joined(names)
      BY <1>3, <2>1
    <3>2. Split(Joined(names)) = names
      BY DEF Split, Joined
    <3>3. DOMAIN names # {}
      BY ListHas
    <3> QED
      BY <3>1, <3>2, <3>3
  <2> QED
    BY <2>1
<1>5. ASSUME NEW master \in Masters
      PROVE  Take(Take(master, [url |-> "url", sslfingerprint |-> "fingerprint"]),
                  [url |-> "url", fingerprint |-> "sslfingerprint"]) = master
  <2>1. IsObject(master) /\ DOMAIN master \subseteq {"url", "sslfingerprint"}
    BY DEF IsObject
  <2> QED
    BY <2>1, MasterIsKept
<1>6. DownloadRead(read, api)
  BY DownloadIsRead
<1> HIDE DEF read, Filters, Masters
<1>7. ListIsFilled(read, "architectureFilter")
  BY <1>4, <1>6 DEF DownloadRead, ListIsFilled, Gets
<1>8. IsObject(written) /\ DOMAIN written \subseteq WrittenOfDownload /\ DownloadWritten(written, read)
  BY <1>7, DownloadIsWritten
<1> HIDE DEF written
<1>9. ASSUME NEW m \in WrittenOfDownload PROVE Gets(written, m, api, m, api[m])
  <2>1. CASE m \in {"arch", "url", "repotype", "pubkey"}
    BY <1>6, <1>8, <2>1 DEF DownloadRead, DownloadWritten, Gets
  <2>2. CASE m = "archfilter"
    BY <1>4, <1>6, <1>8, <2>2 DEF DownloadRead, DownloadWritten, Gets
  <2>3. CASE m = "master"
    BY <1>3, <1>5, <1>6, <1>8, <2>3 DEF DownloadRead, DownloadWritten, Gets
  <2> QED
    BY <2>1, <2>2, <2>3 DEF WrittenOfDownload
<1>10. written = api
  BY <1>3, <1>8, <1>9, SameObject
<1> QED
  BY <1>10 DEF written, read

\* A repository is written as it was read, what is released without a trigger without
\* one.
LEMMA RepositoryIsKept ==
  ASSUME NEW api \in BaseRepositories
  PROVE  BaseRepositoryToApi(BaseRepositoryFromApi(api)) = Explicit(api)
<1> DEFINE ListsOfPaths == ListsOf([project : STRING, repository : STRING])
           members == [name |-> STRING, block |-> STRING, linkedbuild |-> STRING,
                       rebuild |-> STRING, arch |-> ListsOf(STRING), path |-> ListsOfPaths,
                       releasetarget |-> ListsOf(Targets), download |-> ListsOf(Downloads)]
           read == BaseRepositoryFromApi(api)
           written == BaseRepositoryToApi(read)
           normal == Explicit(api)
<1>1. BaseRepositories = Objects(members, {"name"})
  BY DEF BaseRepositories
<1>2. /\ DOMAIN members = WrittenOfRepository
      /\ members["arch"] = ListsOf(STRING) /\ members["path"] = ListsOfPaths
      /\ members["releasetarget"] = ListsOf(Targets)
      /\ members["download"] = ListsOf(Downloads)
  BY DEF WrittenOfRepository
<1> HIDE DEF members
<1>3. /\ IsObject(api) /\ DOMAIN api \subseteq WrittenOfRepository
      /\ "arch" \in DOMAIN api => api["arch"] \in ListsOf(STRING)
      /\ "path" \in DOMAIN api => api["path"] \in ListsOfPaths
      /\ "releasetarget" \in DOMAIN api => api["releasetarget"] \in ListsOf(Targets)
      /\ "download" \in DOMAIN api => api["download"] \in ListsOf(Downloads)
  <2>1. /\ IsObject(api) /\ DOMAIN api \subseteq DOMAIN members
        /\ \A m \in DOMAIN api : api[m] \in members[m]
    BY <1>1, Membered
  <2> QED
    BY <1>2, <2>1
<1>4. \A m \in {"arch", "path", "releasetarget", "download"} :
        m \in DOMAIN api => IsObject(api[m]) /\ DOMAIN api[m] # {}
  BY <1>3, ListHas
<1>5. /\ IsObject(normal) /\ DOMAIN normal = DOMAIN api
      /\ \A m \in DOMAIN api : m # "releasetarget" => normal[m] = api[m]
      /\ "releasetarget" \in DOMAIN api =>
           normal["releasetarget"]
             = [i \in DOMAIN api["releasetarget"] |-> ExplicitTarget(api["releasetarget"][i])]
  BY DEF Explicit, IsObject
<1>6. "releasetarget" \in DOMAIN api =>
        \A i \in DOMAIN api["releasetarget"] :
          ReleaseTargetToApi(ReleaseTargetFromApi(api["releasetarget"][i]))
            = ExplicitTarget(api["releasetarget"][i])
  BY <1>3, ListHas, ReleaseTargetIsKept
<1>7. "download" \in DOMAIN api =>
        \A i \in DOMAIN api["download"] :
          DownloadToApi(DownloadFromApi(api["download"][i])) = api["download"][i]
  BY <1>3, ListHas, DownloadIsKept
<1> HIDE DEF normal, ListsOfPaths
<1>8. RepositoryRead(read, api)
  BY <1>4, RepositoryIsRead DEF ListIsFilled
<1> HIDE DEF read
<1>9. /\ ListIsFilled(read, "arch") /\ ListIsFilled(read, "path")
      /\ ListIsFilled(read, "releaseTarget") /\ ListIsFilled(read, "downloadOnDemand")
  BY <1>4, <1>8 DEF ListIsFilled, RepositoryRead, Gets
<1>10. /\ IsObject(written) /\ DOMAIN written \subseteq WrittenOfRepository
       /\ RepositoryWritten(written, read)
  BY <1>9, RepositoryIsWritten
<1> HIDE DEF written
<1>11. ASSUME NEW m \in WrittenOfRepository PROVE Gets(written, m, normal, m, normal[m])
  <2>1. CASE m \in {"name", "block", "linkedbuild", "rebuild"}
    BY <1>5, <1>8, <1>10, <2>1 DEF RepositoryRead, RepositoryWritten, Gets
  <2>2. CASE m = "arch"
    <3> DEFINE list == api["arch"]
               kept == read["arch"]
               back == written["arch"]
               wanted == normal["arch"]
    <3>1. /\ Gets(read, "arch", api, "arch",
                [i \in DOMAIN list |-> list[i]])
          /\ Gets(written, "arch", read, "arch",
                [i \in DOMAIN kept |-> kept[i]])
      BY <1>8, <1>10 DEF RepositoryRead, RepositoryWritten
    <3>2. ASSUME "arch" \in DOMAIN api PROVE back = wanted
      <4>1. kept = [i \in DOMAIN list |-> list[i]]
        BY <3>1, <3>2 DEF Gets
      <4>2. back = [i \in DOMAIN kept |-> kept[i]]
        BY <3>1, <3>2 DEF Gets
      <4>3. /\ IsObject(wanted) /\ DOMAIN wanted = DOMAIN list
            /\ \A i \in DOMAIN list : list[i] = wanted[i]
        BY <1>4, <1>5, <3>2
      <4> HIDE DEF list, kept, back, wanted
      <4>4. DOMAIN back = DOMAIN wanted /\ IsObject(back)
        BY <4>1, <4>2, <4>3 DEF IsObject
      <4>5. \A i \in DOMAIN back : back[i] = wanted[i]
        BY <4>1, <4>2, <4>3, <4>4
      <4> QED
        BY <4>3, <4>4, <4>5, SameMembers
    <3>3. "arch" \in DOMAIN normal <=> "arch" \in DOMAIN api
      BY <1>4, <1>5
    <3> QED
      BY <2>2, <3>1, <3>2, <3>3 DEF Gets
  <2>3. CASE m = "path"
    <3> DEFINE list == api["path"]
               kept == read["path"]
               back == written["path"]
               wanted == normal["path"]
    <3>1. /\ Gets(read, "path", api, "path",
                [i \in DOMAIN list |-> list[i]])
          /\ Gets(written, "path", read, "path",
                [i \in DOMAIN kept |-> kept[i]])
      BY <1>8, <1>10 DEF RepositoryRead, RepositoryWritten
    <3>2. ASSUME "path" \in DOMAIN api PROVE back = wanted
      <4>1. kept = [i \in DOMAIN list |-> list[i]]
        BY <3>1, <3>2 DEF Gets
      <4>2. back = [i \in DOMAIN kept |-> kept[i]]
        BY <3>1, <3>2 DEF Gets
      <4>3. /\ IsObject(wanted) /\ DOMAIN wanted = DOMAIN list
            /\ \A i \in DOMAIN list : list[i] = wanted[i]
        BY <1>4, <1>5, <3>2
      <4> HIDE DEF list, kept, back, wanted
      <4>4. DOMAIN back = DOMAIN wanted /\ IsObject(back)
        BY <4>1, <4>2, <4>3 DEF IsObject
      <4>5. \A i \in DOMAIN back : back[i] = wanted[i]
        BY <4>1, <4>2, <4>3, <4>4
      <4> QED
        BY <4>3, <4>4, <4>5, SameMembers
    <3>3. "path" \in DOMAIN normal <=> "path" \in DOMAIN api
      BY <1>4, <1>5
    <3> QED
      BY <2>3, <3>1, <3>2, <3>3 DEF Gets
  <2>4. CASE m = "releasetarget"
    <3> DEFINE list == api["releasetarget"]
               kept == read["releaseTarget"]
               back == written["releasetarget"]
               wanted == normal["releasetarget"]
    <3>1. /\ Gets(read, "releaseTarget", api, "releasetarget",
                [i \in DOMAIN list |-> ReleaseTargetFromApi(list[i])])
          /\ Gets(written, "releasetarget", read, "releaseTarget",
                [i \in DOMAIN kept |-> ReleaseTargetToApi(kept[i])])
      BY <1>8, <1>10 DEF RepositoryRead, RepositoryWritten
    <3>2. ASSUME "releasetarget" \in DOMAIN api PROVE back = wanted
      <4>1. kept = [i \in DOMAIN list |-> ReleaseTargetFromApi(list[i])]
        BY <3>1, <3>2 DEF Gets
      <4>2. back = [i \in DOMAIN kept |-> ReleaseTargetToApi(kept[i])]
        BY <3>1, <3>2 DEF Gets
      <4>3. /\ IsObject(wanted) /\ DOMAIN wanted = DOMAIN list
            /\ \A i \in DOMAIN list : ReleaseTargetToApi(ReleaseTargetFromApi(list[i])) = wanted[i]
        BY <1>5, <1>6, <3>2 DEF IsObject
      <4> HIDE DEF list, kept, back, wanted
      <4>4. DOMAIN back = DOMAIN wanted /\ IsObject(back)
        BY <4>1, <4>2, <4>3 DEF IsObject
      <4>5. \A i \in DOMAIN back : back[i] = wanted[i]
        BY <4>1, <4>2, <4>3, <4>4
      <4> QED
        BY <4>3, <4>4, <4>5, SameMembers
    <3>3. "releasetarget" \in DOMAIN normal <=> "releasetarget" \in DOMAIN api
      BY <1>5, <1>6
    <3> QED
      BY <2>4, <3>1, <3>2, <3>3 DEF Gets
  <2>5. CASE m = "download"
    <3> DEFINE list == api["download"]
               kept == read["downloadOnDemand"]
               back == written["download"]
               wanted == normal["download"]
    <3>1. /\ Gets(read, "downloadOnDemand", api, "download",
                [i \in DOMAIN list |-> DownloadFromApi(list[i])])
          /\ Gets(written, "download", read, "downloadOnDemand",
                [i \in DOMAIN kept |-> DownloadToApi(kept[i])])
      BY <1>8, <1>10 DEF RepositoryRead, RepositoryWritten
    <3>2. ASSUME "download" \in DOMAIN api PROVE back = wanted
      <4>1. kept = [i \in DOMAIN list |-> DownloadFromApi(list[i])]
        BY <3>1, <3>2 DEF Gets
      <4>2. back = [i \in DOMAIN kept |-> DownloadToApi(kept[i])]
        BY <3>1, <3>2 DEF Gets
      <4>3. /\ IsObject(wanted) /\ DOMAIN wanted = DOMAIN list
            /\ \A i \in DOMAIN list : DownloadToApi(DownloadFromApi(list[i])) = wanted[i]
        BY <1>4, <1>5, <1>7, <3>2
      <4> HIDE DEF list, kept, back, wanted
      <4>4. DOMAIN back = DOMAIN wanted /\ IsObject(back)
        BY <4>1, <4>2, <4>3 DEF IsObject
      <4>5. \A i \in DOMAIN back : back[i] = wanted[i]
        BY <4>1, <4>2, <4>3, <4>4
      <4> QED
        BY <4>3, <4>4, <4>5, SameMembers
    <3>3. "download" \in DOMAIN normal <=> "download" \in DOMAIN api
      BY <1>4, <1>5, <1>7
    <3> QED
      BY <2>5, <3>1, <3>2, <3>3 DEF Gets
  <2> QED
    BY <2>1, <2>2, <2>3, <2>4, <2>5 DEF WrittenOfRepository
<1>12. written = normal
  BY <1>3, <1>5, <1>10, <1>11, SameObject
<1> QED
  BY <1>12 DEF written, read, normal

\* A project's meta that is fetched and set again is the same on the server
\* (fetchProjectMeta, modifyProjectMeta).
LEMMA ProjectMetaIsKept ==
  ASSUME NEW api \in ProjectMetas
  PROVE  ProjectMetaSurvives(api)
<1> DEFINE own == [name |-> STRING, kind |-> STRING, mountproject |-> STRING,
                   access |-> SimpleFlags, link |-> ListsOf(Links),
                   repository |-> ListsOf(BaseRepositories)]
           members == CommonMembers @@ own
           read == ProjectMetaFromApi(api)
           written == ProjectMetaToApi(read)
           normal == Normal(api)
<1>1. ProjectMetas = Objects(members, {"name", "title", "description"})
  BY DEF ProjectMetas
<1>2. /\ DOMAIN own = {"name", "kind", "mountproject", "access", "link", "repository"}
      /\ own["access"] = SimpleFlags /\ own["link"] = ListsOf(Links)
      /\ own["repository"] = ListsOf(BaseRepositories)
  OBVIOUS
<1> HIDE DEF own
<1>3. OfTwo(members, CommonMembers, own)
  BY TwoParts
<1> HIDE DEF members
<1>4. DOMAIN CommonMembers = WrittenNames
  BY DEF CommonMembers, WrittenNames, PlainNames
<1>5. /\ IsObject(api) /\ DOMAIN api \subseteq DOMAIN members /\ "name" \in DOMAIN api
      /\ \A m \in DOMAIN api : api[m] \in members[m]
  BY <1>1, Membered
<1>6. /\ DOMAIN api \subseteq WrittenOfProject
      /\ "access" \in DOMAIN api => api["access"] \in SimpleFlags
      /\ "link" \in DOMAIN api => api["link"] \in ListsOf(Links)
      /\ "repository" \in DOMAIN api => api["repository"] \in ListsOf(BaseRepositories)
  <2>1. {"access", "link", "repository"} \cap WrittenNames = {}
    BY DEF WrittenNames, PlainNames
  <2> QED
    BY <1>2, <1>3, <1>4, <1>5, <2>1 DEF OfTwo, WrittenOfProject
<1>7. CommonHolds(api)
  <2>1. \A m \in DOMAIN CommonMembers : m \in DOMAIN members /\ members[m] = CommonMembers[m]
    BY <1>3 DEF OfTwo
  <2> QED
    BY <1>1, <2>1, CommonHas
<1>8. \A m \in {"link", "repository"} :
        m \in DOMAIN api => IsObject(api[m]) /\ DOMAIN api[m] # {}
  BY <1>6, ListHas
<1>9. /\ IsObject(normal) /\ DOMAIN normal = DOMAIN api
      /\ \A m \in DOMAIN api : m \notin {"link", "repository"} => normal[m] = api[m]
      /\ "link" \in DOMAIN api =>
           normal["link"] = [i \in DOMAIN api["link"] |-> api["link"][i] @@ "vrevmode" :> "standard"]
      /\ "repository" \in DOMAIN api =>
           normal["repository"] = [i \in DOMAIN api["repository"] |-> Explicit(api["repository"][i])]
  BY DEF Normal, IsObject
<1>10. "link" \in DOMAIN api =>
         \A i \in DOMAIN api["link"] :
           LinkToApi(LinkFromApi(api["link"][i])) = api["link"][i] @@ "vrevmode" :> "standard"
  BY <1>6, ListHas, LinkIsRead DEF LinkToApi, Copied
<1>11. "repository" \in DOMAIN api =>
         \A i \in DOMAIN api["repository"] :
           BaseRepositoryToApi(BaseRepositoryFromApi(api["repository"][i]))
             = Explicit(api["repository"][i])
  BY <1>6, ListHas, RepositoryIsKept
<1> HIDE DEF normal
<1>12. ProjectRead(read, api)
  BY <1>7, <1>8, ProjectIsRead DEF ListIsFilled, CommonHolds
<1> HIDE DEF read
<1>13. /\ ListIsFilled(read, "person") /\ ListIsFilled(read, "group")
       /\ ListIsFilled(read, "link") /\ ListIsFilled(read, "repository")
  <2>1. ListIsFilled(read, "person") /\ ListIsFilled(read, "group")
    BY <1>7, <1>12, CommonIsFilled DEF ProjectRead
  <2>2. ListIsFilled(read, "link") /\ ListIsFilled(read, "repository")
    BY <1>8, <1>12 DEF ListIsFilled, ProjectRead, Gets
  <2> QED
    BY <2>1, <2>2
<1>14. /\ IsObject(written) /\ DOMAIN written \subseteq WrittenOfProject
       /\ ProjectWritten(written, read)
  BY <1>13, ProjectIsWritten
<1> HIDE DEF written
<1>15. ASSUME NEW m \in WrittenOfProject PROVE Gets(written, m, normal, m, normal[m])
  <2>1. CASE m \in WrittenNames
    <3>1. Gets(written, m, api, m, api[m])
      BY <1>7, <1>12, <1>14, <2>1, CommonIsKept DEF ProjectRead, ProjectWritten
    <3>2. m \notin {"link", "repository"}
      BY <2>1 DEF WrittenNames, PlainNames
    <3> QED
      BY <1>9, <3>1, <3>2 DEF Gets
  <2>2. CASE m \in {"name", "kind", "mountproject"}
    BY <1>9, <1>12, <1>14, <2>2 DEF ProjectRead, ProjectWritten, Gets
  <2>3. CASE m = "access"
    <3>1. m \in DOMAIN api => BooleanToSimpleFlag(SimpleFlagToBoolean(api[m])) = api[m]
      BY <1>6, <2>3, SimpleFlagIsKept
    <3> QED
      BY <1>9, <1>12, <1>14, <2>3, <3>1 DEF ProjectRead, ProjectWritten, Gets
  <2>4. CASE m = "link"
    <3> DEFINE list == api["link"]
               kept == read["link"]
               back == written["link"]
               wanted == normal["link"]
    <3>1. /\ Gets(read, "link", api, "link",
                [i \in DOMAIN list |-> LinkFromApi(list[i])])
          /\ Gets(written, "link", read, "link",
                [i \in DOMAIN kept |-> LinkToApi(kept[i])])
      BY <1>12, <1>14 DEF ProjectRead, ProjectWritten
    <3>2. ASSUME "link" \in DOMAIN api PROVE back = wanted
      <4>1. kept = [i \in DOMAIN list |-> LinkFromApi(list[i])]
        BY <3>1, <3>2 DEF Gets
      <4>2. back = [i \in DOMAIN kept |-> LinkToApi(kept[i])]
        BY <3>1, <3>2 DEF Gets
      <4>3. /\ IsObject(wanted) /\ DOMAIN wanted = DOMAIN list
            /\ \A i \in DOMAIN list : LinkToApi(LinkFromApi(list[i])) = wanted[i]
        BY <1>9, <1>10, <3>2 DEF IsObject
      <4> HIDE DEF list, kept, back, wanted
      <4>4. DOMAIN back = DOMAIN wanted /\ IsObject(back)
        BY <4>1, <4>2, <4>3 DEF IsObject
      <4>5. \A i \in DOMAIN back : back[i] = wanted[i]
        BY <4>1, <4>2, <4>3, <4>4
      <4> QED
        BY <4>3, <4>4, <4>5, SameMembers
    <3>3. "link" \in DOMAIN normal <=> "link" \in DOMAIN api
      BY <1>9, <1>10
    <3> QED
      BY <2>4, <3>1, <3>2, <3>3 DEF Gets
  <2>5. CASE m = "repository"
    <3> DEFINE list == api["repository"]
               kept == read["repository"]
               back == written["repository"]
               wanted == normal["repository"]
    <3>1. /\ Gets(read, "repository", api, "repository",
                [i \in DOMAIN list |-> BaseRepositoryFromApi(list[i])])
          /\ Gets(written, "repository", read, "repository",
                [i \in DOMAIN kept |-> BaseRepositoryToApi(kept[i])])
      BY <1>12, <1>14 DEF ProjectRead, ProjectWritten
    <3>2. ASSUME "repository" \in DOMAIN api PROVE back = wanted
      <4>1. kept = [i \in DOMAIN list |-> BaseRepositoryFromApi(list[i])]
        BY <3>1, <3>2 DEF Gets
      <4>2. back = [i \in DOMAIN kept |-> BaseRepositoryToApi(kept[i])]
        BY <3>1, <3>2 DEF Gets
      <4>3. /\ IsObject(wanted) /\ DOMAIN wanted = DOMAIN list
            /\ \A i \in DOMAIN list : BaseRepositoryToApi(BaseRepositoryFromApi(list[i])) = wanted[i]
        BY <1>9, <1>11, <3>2 DEF IsObject
      <4> HIDE DEF list, kept, back, wanted
      <4>4. DOMAIN back = DOMAIN wanted /\ IsObject(back)
        BY <4>1, <4>2, <4>3 DEF IsObject
      <4>5. \A i \in DOMAIN back : back[i] = wanted[i]
        BY <4>1, <4>2, <4>3, <4>4
      <4> QED
        BY <4>3, <4>4, <4>5, SameMembers
    <3>3. "repository" \in DOMAIN normal <=> "repository" \in DOMAIN api
      BY <1>9, <1>11
    <3> QED
      BY <2>5, <3>1, <3>2, <3>3 DEF Gets
  <2> QED
    BY <2>1, <2>2, <2>3, <2>4, <2>5 DEF WrittenOfProject
<1>16. written = normal
  BY <1>5, <1>6, <1>9, <1>14, <1>15, SameObject
<1>17. read["name"] = api["name"]
  BY <1>5, <1>12 DEF ProjectRead, Gets
<1>18. FetchProjectMeta(api.name, api) = read
  BY DEF FetchProjectMeta, read
<1>19. ModifyProjectMeta(read) = [route |-> api.name, payload |-> written]
  BY <1>17 DEF ModifyProjectMeta, written
<1> QED
  BY <1>16, <1>18, <1>19 DEF ProjectMetaSurvives, normal

\* And so is a package's (fetchPackageMeta, setPackageMeta).
LEMMA PackageMetaIsKept ==
  ASSUME NEW project, NEW package, NEW api \in PackageMetas(project, package)
  PROVE  PackageMetaSurvives(project, package, api)
<1> DEFINE own == [name |-> {package}, project |-> {project},
                   devel |-> Objects([project |-> STRING, package |-> STRING], {"project"})]
           members == CommonMembers @@ own
           read == PackageMetaFromApi(api)
           written == PackageMetaToApi(read)
           normal == Normal(api)
<1>1. PackageMetas(project, package) = Objects(members, {"title", "description"})
  BY DEF PackageMetas
<1>2. /\ DOMAIN own = {"name", "project", "devel"}
      /\ own["name"] = {package} /\ own["project"] = {project}
  OBVIOUS
<1> HIDE DEF own
<1>3. OfTwo(members, CommonMembers, own)
  BY TwoParts
<1> HIDE DEF members
<1>4. DOMAIN CommonMembers = WrittenNames
  BY DEF CommonMembers, WrittenNames, PlainNames
<1>5. /\ IsObject(api) /\ DOMAIN api \subseteq DOMAIN members
      /\ \A m \in DOMAIN api : api[m] \in members[m]
  BY <1>1, Membered
<1>6. /\ DOMAIN api \subseteq WrittenOfPackage
      /\ "name" \in DOMAIN api => api["name"] = package
      /\ "project" \in DOMAIN api => api["project"] = project
  <2>1. {"name", "project"} \cap WrittenNames = {}
    BY DEF WrittenNames, PlainNames
  <2> QED
    BY <1>2, <1>3, <1>4, <1>5, <2>1 DEF OfTwo, WrittenOfPackage
<1>7. CommonHolds(api)
  <2>1. \A m \in DOMAIN CommonMembers : m \in DOMAIN members /\ members[m] = CommonMembers[m]
    BY <1>3 DEF OfTwo
  <2> QED
    BY <1>1, <2>1, CommonHas
<1>8. normal = api
  <2>1. \A m \in DOMAIN api : m # "link" /\ m # "repository"
    BY <1>6 DEF WrittenOfPackage, WrittenNames, PlainNames
  <2>2. IsObject(normal) /\ DOMAIN normal = DOMAIN api /\ \A m \in DOMAIN api : normal[m] = api[m]
    BY <2>1 DEF Normal, IsObject
  <2> HIDE DEF normal
  <2> QED
    BY <1>5, <2>2, SameMembers
<1> HIDE DEF normal
<1>9. PackageRead(read, api)
  BY <1>7, PackageIsRead DEF CommonHolds
<1> HIDE DEF read
<1>10. ListIsFilled(read, "person") /\ ListIsFilled(read, "group")
  BY <1>7, <1>9, CommonIsFilled DEF PackageRead
<1>11. /\ IsObject(written) /\ DOMAIN written \subseteq WrittenOfPackage
       /\ PackageWritten(written, read)
  BY <1>10, PackageIsWritten
<1> HIDE DEF written
<1>12. ASSUME NEW m \in WrittenOfPackage PROVE Gets(written, m, api, m, api[m])
  <2>1. CASE m \in WrittenNames
    BY <1>7, <1>9, <1>11, <2>1, CommonIsKept DEF PackageRead, PackageWritten
  <2>2. CASE m \in {"name", "project", "devel"}
    BY <1>9, <1>11, <2>2 DEF PackageRead, PackageWritten, Gets
  <2> QED
    BY <2>1, <2>2 DEF WrittenOfPackage
<1>13. written = api
  BY <1>5, <1>6, <1>11, <1>12, SameObject
<1>14. {"project", "name"} \subseteq DOMAIN read =>
         read["project"] = project /\ read["name"] = package
  BY <1>6, <1>9 DEF PackageRead, Gets
<1>15. SetPackageMeta(project, package, read)
         = [route |-> <<project, package>>, payload |-> written]
  BY <1>14 DEF SetPackageMeta, written
<1> QED
  BY <1>8, <1>13, <1>15 DEF PackageMetaSurvives, read, normal

-----------------------------------------------------------------------------
(* Requests that are created                                               *)

\* The members of a package or project that has an API as well.
LEMMA StandsFor ==
  ASSUME NEW names, NEW url, NEW to \in NamedProjects(names) \cup NamedPackages(names),
         NEW obj \in Standing(to, url)
  PROVE  /\ TargetOf(obj) = to
         /\ to \in NamedPackages(names) =>
              (IF IsPackage(obj) THEN OfPackage(obj) ELSE obj) = to
<1>1. CASE to \in NamedPackages(names)
  <2>1. /\ IsObject(to) /\ DOMAIN to = {"projectName", "packageName"}
    BY <1>1 DEF NamedPackages, IsObject
  <2>2. CASE obj = to
    BY <2>1, <2>2 DEF TargetOf, IsPackage, IsProject
  <2>3. CASE obj = WithApi(to, url)
    <3> DEFINE new == [projectName |-> "projectName", name |-> "packageName"]
    <3>1. /\ DOMAIN obj = {"apiUrl", "name", "projectName"}
          /\ obj["name"] = to["packageName"] /\ obj["projectName"] = to["projectName"]
      BY <2>1, <2>3 DEF WithApi
    <3>2. IsPackage(obj)
      BY <3>1 DEF IsPackage
    <3>3. OfPackage(obj) = Take(obj, new)
      BY DEF OfPackage
    <3>4. /\ DOMAIN new = {"projectName", "name"}
          /\ new["projectName"] = "projectName" /\ new["name"] = "packageName"
      OBVIOUS
    <3> HIDE DEF new
    <3>5. OneToOne(new)
      BY <3>4 DEF OneToOne
    <3> DEFINE took == Take(obj, new)
    <3>6. /\ DOMAIN took \subseteq {new[m] : m \in DOMAIN new}
          /\ \A m \in DOMAIN new : Gets(took, new[m], obj, m, obj[m])
      BY <3>5, OneTaken
    <3>7. IsObject(took)
      BY <3>5, Taken, Zenon
    <3> HIDE DEF took
    <3>8. /\ DOMAIN took = DOMAIN to /\ \A m \in DOMAIN took : took[m] = to[m]
      BY <2>1, <3>1, <3>4, <3>6 DEF Gets
    <3>9. took = to
      BY <2>1, <3>7, <3>8, SameMembers
    <3> QED
      BY <3>2, <3>3, <3>9 DEF TargetOf, took
  <2> QED
    BY <2>2, <2>3 DEF Standing
<1>2. CASE to \in NamedProjects(names)
  <2>1. /\ IsObject(to) /\ DOMAIN to = {"projectName"}
    BY <1>2, OneMember DEF NamedProjects
  <2>2. to \notin NamedPackages(names)
    <3>1. ASSUME to \in NamedPackages(names) PROVE FALSE
      <4>1. "packageName" \in DOMAIN to
        BY <3>1 DEF NamedPackages
      <4> QED
        BY <2>1, <4>1
    <3> QED
      BY <3>1
  <2>3. CASE obj = to
    BY <2>1, <2>2, <2>3 DEF TargetOf, IsPackage, IsProject
  <2>4. CASE obj = WithApi(to, url)
    <3> DEFINE new == [name |-> "projectName"]
    <3>1. /\ DOMAIN obj = {"apiUrl", "name"} /\ obj["name"] = to["projectName"]
      BY <2>1, <2>4 DEF WithApi
    <3>2. ~IsPackage(obj) /\ IsProject(obj)
      BY <3>1 DEF IsPackage, IsProject
    <3>3. TargetOf(obj) = Take(obj, new)
      BY <3>2 DEF TargetOf
    <3>4. DOMAIN new = {"name"} /\ new["name"] = "projectName"
      OBVIOUS
    <3> HIDE DEF new
    <3>5. OneToOne(new)
      BY <3>4 DEF OneToOne
    <3> DEFINE took == Take(obj, new)
    <3>6. /\ DOMAIN took \subseteq {new[m] : m \in DOMAIN new}
          /\ \A m \in DOMAIN new : Gets(took, new[m], obj, m, obj[m])
      BY <3>5, OneTaken
    <3>7. IsObject(took)
      BY <3>5, Taken, Zenon
    <3> HIDE DEF took
    <3>8. /\ DOMAIN took = DOMAIN to /\ \A m \in DOMAIN took : took[m] = to[m]
      BY <2>1, <3>1, <3>4, <3>6 DEF Gets
    <3>9. took = to
      BY <2>1, <3>7, <3>8, SameMembers
    <3> QED
      BY <2>2, <3>3, <3>9 DEF took
  <2> QED
    BY <2>3, <2>4 DEF Standing
<1> QED
  BY <1>1, <1>2

\* What is sent for a project or package is read as that.
LEMMA TargetIsBack ==
  ASSUME NEW to, IsObject(to), DOMAIN to \subseteq {"projectName", "packageName"}
  PROVE  TargetFromApi(TargetToApi(to)) = to
<1> DEFINE names == [projectName |-> "project", packageName |-> "package",
                     releaseProject |-> "releaseproject", repository |-> "repository"]
           back == [project |-> "projectName", package |-> "packageName",
                    releaseproject |-> "releaseProject", repository |-> "repository"]
<1>1. /\ DOMAIN names = {"projectName", "packageName", "releaseProject", "repository"}
      /\ names["projectName"] = "project" /\ names["packageName"] = "package"
      /\ names["releaseProject"] = "releaseproject" /\ names["repository"] = "repository"
  OBVIOUS
<1>2. /\ DOMAIN back = {"project", "package", "releaseproject", "repository"}
      /\ back["project"] = "projectName" /\ back["package"] = "packageName"
      /\ back["releaseproject"] = "releaseProject" /\ back["repository"] = "repository"
  OBVIOUS
<1>3. TargetFromApi(TargetToApi(to)) = Take(Take(to, names), back)
  BY DEF TargetFromApi, TargetToApi
<1> HIDE DEF names, back
<1>4. OneToOne(names) /\ OneToOne(back)
  BY <1>1, <1>2 DEF OneToOne
<1>5. \A m \in DOMAIN to : m \in DOMAIN names /\ names[m] \in DOMAIN back /\ back[names[m]] = m
  BY <1>1, <1>2
<1> QED
  BY <1>3, <1>4, <1>5, TakenBack

\* What is sent for a new request.
Sent(payload, action) ==
  /\ IsObject(payload) /\ DOMAIN payload = {"description", "action"}
  /\ DOMAIN payload["action"] = {1} /\ payload["action"][1] = ActionToApi(action)

LEMMA RequestIsSent ==
  ASSUME NEW action
  PROVE  Sent(RequestToApi(NewRequest(action)), action)
<1> DEFINE request == NewRequest(action)
           names == [description |-> "description", priority |-> "priority",
                     autoAcceptAt |-> "accept_at"]
           took == Take(request, names)
           p1 == Converted(took, "accept_at", ToISOString)
           p2 == Children(request, "actions", "action", ActionToApi)
           p3 == Children(request, "reviews", "review", ReviewToApi)
           payload == p1 @@ p2 @@ p3
           actions == [i \in DOMAIN request["actions"] |-> ActionToApi(request["actions"][i])]
           reviews == [i \in DOMAIN request["reviews"] |-> ReviewToApi(request["reviews"][i])]
<1>1. RequestToApi(request) = payload
  BY DEF RequestToApi
<1>2. p2 = ListIn(request, "actions", "action", actions)
  BY DEF Children, ListOf, List, ListIn
<1>3. p3 = ListIn(request, "reviews", "review", reviews)
  BY DEF Children, ListOf, List, ListIn
<1>4. /\ DOMAIN request = {"actions", "reviews", "description"}
      /\ DOMAIN request["actions"] = {1} /\ request["actions"][1] = action
      /\ request["reviews"] = <<>>
  BY DEF NewRequest
<1>5. /\ DOMAIN names = {"description", "priority", "autoAcceptAt"}
      /\ names["description"] = "description" /\ names["priority"] = "priority"
      /\ names["autoAcceptAt"] = "accept_at"
  OBVIOUS
<1> HIDE DEF names, request
<1>6. OneToOne(names)
  BY <1>5 DEF OneToOne
<1>7. /\ DOMAIN took \subseteq {names[m] : m \in DOMAIN names}
      /\ \A m \in DOMAIN names : Gets(took, names[m], request, m, request[m])
      /\ DOMAIN p1 = DOMAIN took
  BY <1>6, OneTaken DEF Converted
<1>8. OfThree(payload, p1, p2, p3)
  BY ThreeParts
<1>9. DOMAIN actions = {1} /\ actions[1] = ActionToApi(action)
  BY <1>4
<1>10. reviews = <<>>
  BY <1>4
<1> HIDE DEF took, p1, p2, p3, payload, actions, reviews
<1>11. DOMAIN p1 = {"description"}
  <2>1. DOMAIN p1 \subseteq {"description", "priority", "accept_at"}
    BY <1>5, <1>7
  <2>2. \A m \in DOMAIN names : names[m] \in DOMAIN p1 <=> m \in DOMAIN request
    BY <1>7 DEF Gets
  <2>3. /\ "description" \in DOMAIN p1
        /\ "priority" \notin DOMAIN p1 /\ "accept_at" \notin DOMAIN p1
    BY <1>4, <1>5, <2>2
  <2> QED
    BY <2>1, <2>3
<1>12. DOMAIN p2 = {"action"} /\ p2["action"] = actions
  <2>1. actions # <<>>
    BY <1>9
  <2> QED
    BY <1>2, <1>4, <2>1, OneMember DEF ListIn
<1>13. DOMAIN p3 = {}
  BY <1>3, <1>4, <1>10, NoMember DEF ListIn
<1>14. payload["action"] = actions /\ DOMAIN payload = {"description", "action"}
  BY <1>8, <1>11, <1>12, <1>13 DEF OfThree
<1> QED
  BY <1>1, <1>8, <1>9, <1>14 DEF Sent, OfThree, request

\* The reply to a new request of the user, with the action as the server has it.
LEMMA RequestIsCreated ==
  ASSUME NEW payload, NEW action,
         DOMAIN payload = {"description", "action"}, payload["action"] = <<action>>,
         NEW username, NEW other, username # other, NEW id \in Nat
  PROVE  LET reply == payload @@ [id |-> id, creator |-> username]
             created == CreateRequest(username, reply)
         IN  /\ created["actions"][1] = ActionFromApi(action)
             /\ FetchRequest(id, reply) = created
             /\ CreateRequest(other, reply) = Rejected
<1> DEFINE given == [id |-> id, creator |-> username]
           reply == payload @@ given
           names == [id |-> "id", creator |-> "creatorUserId",
                     description |-> "description", priority |-> "priority",
                     accept_at |-> "autoAcceptAt"]
           dated == Converted(reply, "accept_at", DateOf)
           p1 == Take(dated, names)
           p2 == List(reply, "action", "actions", ActionFromApi)
           p3 == Child(reply, "state", "state", StateFromApi)
           p4 == List(reply, "review", "reviews", ReviewFromApi)
           p5 == List(reply, "history", "history", HistoryFromApi)
           request == p1 @@ p2 @@ p3 @@ p4 @@ p5
           actions == [i \in DOMAIN reply["action"] |-> ActionFromApi(reply["action"][i])]
<1>1. DOMAIN given = {"id", "creator"} /\ given["id"] = id /\ given["creator"] = username
  OBVIOUS
<1>2. OfTwo(reply, payload, given)
  BY TwoParts
<1> HIDE DEF given
<1>3. RequestFromApi(reply) = IF \E i \in DOMAIN ListOf(reply, "review", ReviewFromApi) :
                                  ReviewFromApi(reply.review[i]) = Rejected
                              THEN Rejected ELSE request
  BY DEF RequestFromApi
<1>4. p2 = "actions" :> ListOf(reply, "action", ActionFromApi)
  BY DEF List
<1>5. "action" \in DOMAIN reply => ListOf(reply, "action", ActionFromApi) = actions
  BY DEF ListOf
<1>6. "review" \notin DOMAIN reply => ListOf(reply, "review", ReviewFromApi) = <<>>
  BY DEF ListOf
<1>7. /\ p3 = IF "state" \in DOMAIN reply THEN "state" :> StateFromApi(reply["state"])
              ELSE Empty
      /\ p4 = "reviews" :> ListOf(reply, "review", ReviewFromApi)
      /\ p5 = "history" :> ListOf(reply, "history", HistoryFromApi)
  BY DEF Child, List
<1>8. /\ DOMAIN names = {"id", "creator", "description", "priority", "accept_at"}
      /\ names["id"] = "id" /\ names["creator"] = "creatorUserId"
      /\ names["description"] = "description" /\ names["priority"] = "priority"
      /\ names["accept_at"] = "autoAcceptAt"
  OBVIOUS
<1> HIDE DEF names, reply
<1>9. /\ DOMAIN reply = {"description", "action", "id", "creator"}
      /\ reply["id"] = id /\ reply["creator"] = username
      /\ reply["action"] = payload["action"]
  BY <1>1, <1>2 DEF OfTwo
<1>10. /\ DOMAIN dated = DOMAIN reply
       /\ dated["id"] = id /\ dated["creator"] = username
  BY <1>9 DEF Converted
<1> HIDE DEF dated
<1>11. OneToOne(names)
  BY <1>8 DEF OneToOne
<1>12. /\ DOMAIN p1 \subseteq {names[m] : m \in DOMAIN names}
       /\ \A m \in DOMAIN names : Gets(p1, names[m], dated, m, dated[m])
  BY <1>11, OneTaken
<1>13. RequestFromApi(reply) = request
  <2>1. DOMAIN ListOf(reply, "review", ReviewFromApi) = {}
    BY <1>6, <1>9
  <2> QED
    BY <1>3, <2>1
<1>14. OfFive(request, p1, p2, p3, p4, p5)
  BY FiveParts
<1> HIDE DEF p1, p2, p3, p4, p5, request
<1>15. /\ "id" \in DOMAIN p1 /\ p1["id"] = id
       /\ "creatorUserId" \in DOMAIN p1 /\ p1["creatorUserId"] = username
  <2>1. /\ Gets(p1, "id", dated, "id", dated["id"])
        /\ Gets(p1, "creatorUserId", dated, "creator", dated["creator"])
    BY <1>8, <1>12
  <2> QED
    BY <1>9, <1>10, <2>1 DEF Gets
<1>16. DOMAIN p1 \subseteq {"id", "creatorUserId", "description", "priority", "autoAcceptAt"}
  BY <1>8, <1>12
<1>17. DOMAIN p2 = {"actions"} /\ p2["actions"] = actions
  BY <1>4, <1>5, <1>9, OneMember
<1>18. actions[1] = ActionFromApi(action)
  BY <1>9
<1> HIDE DEF actions
<1>19. /\ {"id", "creatorUserId"} \subseteq DOMAIN request
       /\ request["id"] = id /\ request["creatorUserId"] = username
       /\ request["actions"] = actions
  BY <1>14, <1>15, <1>16, <1>17 DEF OfFive
<1>20. CreateRequest(username, reply) = request
  BY <1>13, <1>19 DEF CreateRequest
<1>21. CreateRequest(other, reply) = Rejected
  BY <1>13, <1>19 DEF CreateRequest
<1>22. FetchRequest(id, reply) = request
  BY <1>13, <1>19 DEF FetchRequest
<1> QED
  BY <1>18, <1>19, <1>20, <1>21, <1>22 DEF reply, given

\* The target that the server names: that of the action, and for a submission to a
\* project the package as well.
LEMMA TargetIsFilled ==
  ASSUME NEW to, IsObject(to),
         DOMAIN to = {"projectName"} \/ DOMAIN to = {"projectName", "packageName"},
         NEW package, NEW target,
         target = IF "package" \in DOMAIN TargetToApi(to) THEN TargetToApi(to)
                  ELSE TargetToApi(to) @@ "package" :> package
  PROVE  /\ "package" \in DOMAIN TargetToApi(to) <=> "packageName" \in DOMAIN to
         /\ TargetFromApi(target) = to @@ "packageName" :> package
<1> DEFINE names == [projectName |-> "project", packageName |-> "package",
                     releaseProject |-> "releaseproject", repository |-> "repository"]
           back == [project |-> "projectName", package |-> "packageName",
                    releaseproject |-> "releaseProject", repository |-> "repository"]
           sent == TargetToApi(to)
           read == TargetFromApi(target)
           filled == to @@ "packageName" :> package
<1>1. /\ DOMAIN names = {"projectName", "packageName", "releaseProject", "repository"}
      /\ names["projectName"] = "project" /\ names["packageName"] = "package"
      /\ names["releaseProject"] = "releaseproject" /\ names["repository"] = "repository"
  OBVIOUS
<1>2. /\ DOMAIN back = {"project", "package", "releaseproject", "repository"}
      /\ back["project"] = "projectName" /\ back["package"] = "packageName"
      /\ back["releaseproject"] = "releaseProject" /\ back["repository"] = "repository"
  OBVIOUS
<1>3. sent = Take(to, names) /\ read = Take(target, back)
  BY DEF TargetToApi, TargetFromApi
<1> HIDE DEF names, back
<1>4. OneToOne(names) /\ OneToOne(back)
  BY <1>1, <1>2 DEF OneToOne
<1>5. Renamed(sent, to, names)
  BY <1>1, <1>3, <1>4, AllTaken
<1>6. /\ DOMAIN sent = {names[m] : m \in DOMAIN to}
      /\ sent["project"] = to["projectName"]
      /\ "packageName" \in DOMAIN to => sent["package"] = to["packageName"]
  BY <1>1, <1>5 DEF Renamed
<1>7. "package" \in DOMAIN sent <=> "packageName" \in DOMAIN to
  BY <1>1, <1>6
<1>8. OfTwo(sent @@ "package" :> package, sent, "package" :> package)
  BY TwoParts
<1>9. DOMAIN ("package" :> package) = {"package"} /\ ("package" :> package)["package"] = package
  BY OneMember
<1>10. OfTwo(filled, to, "packageName" :> package)
  BY TwoParts
<1>11. /\ DOMAIN ("packageName" :> package) = {"packageName"}
       /\ ("packageName" :> package)["packageName"] = package
  BY OneMember
<1>12. /\ IsObject(filled) /\ DOMAIN filled = {"projectName", "packageName"}
       /\ filled["projectName"] = to["projectName"]
       /\ filled["packageName"]
            = IF "packageName" \in DOMAIN to THEN to["packageName"] ELSE package
  BY <1>10, <1>11 DEF OfTwo
<1> HIDE DEF sent, filled, read
<1>13. /\ DOMAIN target = {"project", "package"}
       /\ target["project"] = filled["projectName"]
       /\ target["package"] = filled["packageName"]
  <2>1. CASE "packageName" \in DOMAIN to
    <3>1. target = sent
      BY <1>7, <2>1 DEF sent
    <3>2. DOMAIN to = {"projectName", "packageName"}
      BY <2>1
    <3>3. DOMAIN sent = {"project", "package"}
      BY <1>1, <1>6, <3>2
    <3> QED
      BY <1>6, <1>12, <2>1, <3>1, <3>3
  <2>2. CASE "packageName" \notin DOMAIN to
    <3>1. target = sent @@ "package" :> package
      BY <1>7, <2>2 DEF sent
    <3>2. DOMAIN to = {"projectName"}
      BY <2>2
    <3>3. DOMAIN sent = {"project"}
      BY <1>1, <1>6, <3>2
    <3> QED
      BY <1>6, <1>8, <1>9, <1>12, <2>2, <3>1, <3>3 DEF OfTwo
  <2> QED
    BY <2>1, <2>2
<1>14. Renamed(read, target, back)
  BY <1>2, <1>3, <1>4, <1>13, AllTaken
<1>15. /\ IsObject(read) /\ DOMAIN read = {"projectName", "packageName"}
       /\ read["projectName"] = filled["projectName"]
       /\ read["packageName"] = filled["packageName"]
  <2>1. DOMAIN read = {back[m] : m \in {"project", "package"}}
    BY <1>13, <1>14 DEF Renamed
  <2>2. DOMAIN read = {"projectName", "packageName"}
    BY <1>2, <2>1
  <2> QED
    BY <1>2, <1>13, <1>14, <2>2 DEF Renamed
<1>16. read = filled
  BY <1>12, <1>15, SameMembers
<1> QED
  BY <1>7, <1>16 DEF sent, read, filled

\* The request is about the target of its action, with the package that the server
\* fills in, and others do not take it for theirs.
LEMMA CreatedForIt ==
  ASSUME NEW action, "options" \notin DOMAIN action,
         {"type", "target"} \subseteq DOMAIN action, NEW to, action["target"] = to,
         IsObject(to),
         DOMAIN to = {"projectName"} \/ DOMAIN to = {"projectName", "packageName"},
         NEW package,
         action["type"] = "submit" =>
           /\ "source" \in DOMAIN action
           /\ SourceToApi(action["source"])["package"] = package,
         NEW username, NEW other, username # other, NEW id \in Nat
  PROVE  CreatedForTarget(username, other, id, RequestToApi(NewRequest(action)),
                          IF action["type"] = "submit"
                          THEN to @@ "packageName" :> package ELSE to)
<1> DEFINE payload == RequestToApi(NewRequest(action))
           sent == ActionToApi(action)
           filled == Filled(sent)
           made == [payload EXCEPT !.action = <<filled>>]
           reply == made @@ [id |-> id, creator |-> username]
           created == CreateRequest(username, reply)
           target == IF action["type"] = "submit"
                     THEN to @@ "packageName" :> package ELSE to
<1>1. Sent(payload, action)
  BY RequestIsSent
<1>2. ActionWritten(sent, action)
  BY ActionIsWritten
<1> HIDE DEF payload, sent
<1>3. payload["action"][1] = sent
  BY <1>1 DEF Sent, sent
<1>4. DOMAIN made = {"description", "action"} /\ made["action"] = <<filled>>
  BY <1>1 DEF Sent
<1>5. /\ "type" \in DOMAIN sent /\ sent["type"] = action["type"]
      /\ "target" \in DOMAIN sent /\ sent["target"] = TargetToApi(to)
      /\ "options" \notin DOMAIN sent
      /\ action["type"] = "submit" => sent["source"]["package"] = package
  BY <1>2 DEF ActionWritten, Gets
<1>6. /\ DOMAIN filled = DOMAIN sent
      /\ filled["target"]
           = IF action["type"] = "submit" /\ "package" \notin DOMAIN TargetToApi(to)
             THEN TargetToApi(to) @@ "package" :> package ELSE TargetToApi(to)
  BY <1>5 DEF Filled
<1>7. TargetFromApi(filled["target"]) = target
  <2>1. CASE action["type"] = "submit"
    <3>1. filled["target"] = IF "package" \in DOMAIN TargetToApi(to) THEN TargetToApi(to)
                             ELSE TargetToApi(to) @@ "package" :> package
      BY <1>6, <2>1
    <3>2. TargetFromApi(filled["target"]) = to @@ "packageName" :> package
      BY <3>1, TargetIsFilled
    <3> QED
      BY <2>1, <3>2
  <2>2. CASE action["type"] # "submit"
    BY <1>6, <2>2, TargetIsBack
  <2> QED
    BY <2>1, <2>2
<1> HIDE DEF filled, made, target
<1>8. OptionIsRead(filled)
  BY <1>5, <1>6 DEF OptionIsRead
<1>9. ActionRead(ActionFromApi(filled), filled)
  BY <1>8, ActionIsRead
<1>10. ActionFromApi(filled)["target"] = target
  BY <1>5, <1>6, <1>7, <1>9 DEF ActionRead, Gets
<1>11. /\ created["actions"][1] = ActionFromApi(filled)
       /\ FetchRequest(id, reply) = created
       /\ CreateRequest(other, reply) = Rejected
  BY <1>4, RequestIsCreated
<1>12. CreatedForTarget(username, other, id, payload, target)
  BY <1>3, <1>10, <1>11 DEF CreatedForTarget, made, filled
<1> QED
  BY <1>12 DEF payload, target

\* A deletion or submission, whatever objects stand for what is asked for.
LEMMA AskedForIsCreated ==
  ASSUME NEW names, NEW url, NEW from \in NamedPackages(names),
         NEW to \in NamedProjects(names) \cup NamedPackages(names),
         NEW source \in Standing(from, url), NEW target \in Standing(to, url),
         NEW username, NEW other, username # other, NEW id \in Nat
  PROVE  /\ CreatedForTarget(username, other, id, RequestDeletion(target), to)
         /\ CreatedForTarget(username, other, id, SubmitPackage(source, target),
                             to @@ "packageName" :> from.packageName)
         /\ SubmitPackage(source, target).action[1].source
              = [project |-> from.projectName, package |-> from.packageName]
<1> DEFINE deletion == [type |-> "delete", target |-> to]
           submission == [type |-> "submit", source |-> from, target |-> to]
<1>1. TargetOf(target) = to
  BY StandsFor
<1>2. (IF IsPackage(source) THEN OfPackage(source) ELSE source) = from
  BY StandsFor
<1>3. RequestDeletion(target) = RequestToApi(NewRequest(deletion))
  BY <1>1 DEF RequestDeletion
<1>4. SubmitPackage(source, target) = RequestToApi(NewRequest(submission))
  BY <1>1, <1>2 DEF SubmitPackage
<1>5. /\ IsObject(to)
      /\ DOMAIN to = {"projectName"} \/ DOMAIN to = {"projectName", "packageName"}
  <2>1. CASE to \in NamedProjects(names)
    <3>1. PICK name \in names : to = "projectName" :> name
      BY <2>1 DEF NamedProjects
    <3>2. IsObject(to) /\ DOMAIN to = {"projectName"}
      BY <3>1, OneMember
    <3> QED
      BY <3>2
  <2>2. CASE to \in NamedPackages(names)
    BY <2>2 DEF NamedPackages, IsObject
  <2> QED
    BY <2>1, <2>2
<1>6. /\ DOMAIN deletion = {"type", "target"}
      /\ deletion["type"] = "delete" /\ deletion["target"] = to
  OBVIOUS
<1>7. /\ DOMAIN submission = {"type", "source", "target"}
      /\ submission["type"] = "submit"
      /\ submission["target"] = to /\ submission["source"] = from
  OBVIOUS
<1> HIDE DEF deletion, submission
<1>8. /\ RequestToApi(NewRequest(submission))["action"][1]["source"]
           = [project |-> from.projectName, package |-> from.packageName]
      /\ SourceToApi(from)["package"] = from.packageName
  <2> DEFINE payload == RequestToApi(NewRequest(submission))
             sent == ActionToApi(submission)
             all == [projectName |-> "project", packageName |-> "package", revision |-> "rev"]
             took == Take(from, all)
             wanted == [project |-> from.projectName, package |-> from.packageName]
  <2>1. Sent(payload, submission)
    BY RequestIsSent
  <2> HIDE DEF payload
  <2>2. ActionWritten(sent, submission)
    BY ActionIsWritten
  <2> HIDE DEF sent
  <2>3. payload["action"][1]["source"] = SourceToApi(from)
    BY <1>7, <2>1, <2>2 DEF Sent, ActionWritten, Gets, sent
  <2>4. DOMAIN from = {"projectName", "packageName"}
    BY DEF NamedPackages
  <2>5. SourceToApi(from) = took
    BY <2>4 DEF SourceToApi
  <2>6. /\ DOMAIN all = {"projectName", "packageName", "revision"}
        /\ all["projectName"] = "project" /\ all["packageName"] = "package"
        /\ all["revision"] = "rev"
    OBVIOUS
  <2> HIDE DEF all
  <2>7. OneToOne(all) /\ \A m \in DOMAIN from : m \in DOMAIN all
    BY <2>4, <2>6 DEF OneToOne
  <2>8. Renamed(took, from, all)
    BY <2>7, AllTaken
  <2> HIDE DEF took
  <2>9. /\ IsObject(wanted) /\ DOMAIN wanted = {"project", "package"}
        /\ wanted["project"] = from["projectName"] /\ wanted["package"] = from["packageName"]
    BY DEF IsObject
  <2> HIDE DEF wanted
  <2>10. DOMAIN took = DOMAIN wanted /\ \A m \in DOMAIN took : took[m] = wanted[m]
    BY <2>4, <2>6, <2>8, <2>9 DEF Renamed
  <2>11. took = wanted
    BY <2>8, <2>9, <2>10, SameMembers DEF Renamed
  <2> QED
    BY <2>3, <2>5, <2>9, <2>11 DEF payload, wanted
<1>9. CreatedForTarget(username, other, id, RequestToApi(NewRequest(deletion)), to)
  <2>1. deletion["type"] # "submit"
    BY <1>6
  <2> QED
    BY <1>5, <1>6, <2>1, CreatedForIt
<1>10. CreatedForTarget(username, other, id, RequestToApi(NewRequest(submission)),
                        to @@ "packageName" :> from.packageName)
  BY <1>5, <1>7, <1>8, CreatedForIt
<1> QED
  BY <1>3, <1>4, <1>8, <1>9, <1>10

-----------------------------------------------------------------------------
(* Branches that are fetched                                               *)

\* A sequence with one more element.
Extended(new, seq, value) ==
  /\ DOMAIN new = 1..(Len(seq) + 1) /\ Len(new) = Len(seq) + 1
  /\ \A i \in 1..Len(seq) : new[i] = seq[i]
  /\ new[Len(seq) + 1] = value

LEMMA OneMore ==
  ASSUME NEW S, NEW seq \in Seq(S), NEW value \in S
  PROVE  seq \o <<value>> \in Seq(S) /\ Extended(seq \o <<value>>, seq, value)
<1> DEFINE last == <<value>>
           new == seq \o last
<1>1. last \in Seq(S) /\ Len(last) = 1 /\ last[1] = value
  OBVIOUS
<1> HIDE DEF last
<1>2. /\ new \in Seq(S)
      /\ Len(new) = Len(seq) + Len(last)
      /\ \A i \in 1 .. Len(seq) + Len(last) :
           new[i] = IF i <= Len(seq) THEN seq[i] ELSE last[i - Len(seq)]
  BY <1>1, ConcatProperties
<1> HIDE DEF new
<1>3. Len(seq) \in Nat /\ DOMAIN new = 1..Len(new)
  BY <1>2
<1>4. Extended(new, seq, value)
  BY <1>1, <1>2, <1>3 DEF Extended
<1> QED
  BY <1>2, <1>4 DEF new, last

\* What the server is told of the branch, of the options that the caller gives.
Told(parameters, options) ==
  /\ Gets(parameters, "target_project", options, "targetProject", options["targetProject"])
  /\ Gets(parameters, "target_package", options, "targetPackage", options["targetPackage"])

\* The parameters of a route (as in MadeFor).
ParametersOf(route) ==
  LET given == [i \in DOMAIN route |-> IF i > 2 THEN route[i] ELSE Empty] IN
  IF Len(route) = 2 THEN Empty
  ELSE IF Len(route) = 3 THEN given[3] ELSE given[3] @@ given[4]

LEMMA RouteTells ==
  ASSUME NEW pkg, NEW options
  PROVE  LET route == BranchRoute(pkg, options) IN
         /\ route[1] = pkg["projectName"] /\ route[2] = pkg["name"]
         /\ Told(ParametersOf(route), options)
<1> DEFINE package == [target_package |-> options.targetPackage]
           project == [target_project |-> options.targetProject]
           start == <<pkg.projectName, pkg.name>>
           All == {pkg.projectName, pkg.name, package, project}
           p1 == IF "targetPackage" \in DOMAIN options THEN <<package>> ELSE <<>>
           p2 == IF "targetProject" \in DOMAIN options THEN <<project>> ELSE <<>>
           route == start \o p1 \o p2
<1>1. BranchRoute(pkg, options) = route
  BY DEF BranchRoute
<1>2. start \in Seq(All) /\ Len(start) = 2 /\ start[1] = pkg["projectName"] /\ start[2] = pkg["name"]
  OBVIOUS
<1>3. /\ DOMAIN package = {"target_package"}
      /\ package["target_package"] = options["targetPackage"]
      /\ DOMAIN project = {"target_project"}
      /\ project["target_project"] = options["targetProject"]
  OBVIOUS
<1>4. package \in All /\ project \in All
  OBVIOUS
<1> HIDE DEF start, package, project, All
<1> DEFINE given == [i \in DOMAIN route |-> IF i > 2 THEN route[i] ELSE Empty]
<1>5. ParametersOf(route) = IF Len(route) = 2 THEN Empty
                            ELSE IF Len(route) = 3 THEN given[3] ELSE given[3] @@ given[4]
  BY DEF ParametersOf
<1>6. \A i \in DOMAIN route : i > 2 => given[i] = route[i]
  OBVIOUS
<1> HIDE DEF given
<1>7. CASE "targetPackage" \notin DOMAIN options /\ "targetProject" \notin DOMAIN options
  <2>1. route = start
    <3>1. p1 = <<>> /\ p2 = <<>>
      BY <1>7
    <3>2. start \o <<>> \o <<>> = start
      BY <1>2, ConcatEmptySeq
    <3> HIDE DEF p1, p2
    <3> QED
      BY <3>1, <3>2
  <2> HIDE DEF route
  <2>2. ParametersOf(route) = Empty
    BY <1>2, <1>5, <2>1
  <2> QED
    BY <1>1, <1>2, <1>7, <2>1, <2>2, NoMember DEF Told, Gets
<1>8. CASE "targetPackage" \in DOMAIN options /\ "targetProject" \notin DOMAIN options
  <2>1. route = start \o <<package>>
    <3>1. p1 = <<package>> /\ p2 = <<>>
      BY <1>8
    <3>2. start \o <<package>> \o <<>> = start \o <<package>>
      BY <1>2, <1>4, OneMore, ConcatEmptySeq
    <3> HIDE DEF p1, p2
    <3> QED
      BY <3>1, <3>2
  <2>2. Extended(route, start, package)
    BY <1>2, <1>4, <2>1, OneMore
  <2> HIDE DEF route
  <2>3. /\ DOMAIN route = 1..3 /\ Len(route) = 3
        /\ route[1] = start[1] /\ route[2] = start[2] /\ route[3] = package
    BY <1>2, <2>2 DEF Extended
  <2>4. ParametersOf(route) = package
    BY <1>5, <1>6, <2>3
  <2> QED
    BY <1>1, <1>2, <1>3, <1>8, <2>3, <2>4 DEF Told, Gets
<1>9. CASE "targetPackage" \notin DOMAIN options /\ "targetProject" \in DOMAIN options
  <2>1. route = start \o <<project>>
    <3>1. p1 = <<>> /\ p2 = <<project>>
      BY <1>9
    <3>2. start \o <<>> = start
      BY <1>2, ConcatEmptySeq
    <3> HIDE DEF p1, p2
    <3> QED
      BY <3>1, <3>2
  <2>2. Extended(route, start, project)
    BY <1>2, <1>4, <2>1, OneMore
  <2> HIDE DEF route
  <2>3. /\ DOMAIN route = 1..3 /\ Len(route) = 3
        /\ route[1] = start[1] /\ route[2] = start[2] /\ route[3] = project
    BY <1>2, <2>2 DEF Extended
  <2>4. ParametersOf(route) = project
    BY <1>5, <1>6, <2>3
  <2> QED
    BY <1>1, <1>2, <1>3, <1>9, <2>3, <2>4 DEF Told, Gets
<1>10. CASE "targetPackage" \in DOMAIN options /\ "targetProject" \in DOMAIN options
  <2> DEFINE three == start \o <<package>>
  <2>1. route = three \o <<project>>
    BY <1>10
  <2>2. three \in Seq(All) /\ Extended(three, start, package)
    BY <1>2, <1>4, OneMore
  <2> HIDE DEF three
  <2>3. Extended(route, three, project)
    BY <1>4, <2>1, <2>2, OneMore
  <2> HIDE DEF route
  <2>4. /\ Len(three) = 3 /\ three[1] = start[1] /\ three[2] = start[2] /\ three[3] = package
    BY <1>2, <2>2 DEF Extended
  <2>5. /\ DOMAIN route = 1..4 /\ Len(route) = 4
        /\ route[1] = start[1] /\ route[2] = start[2]
        /\ route[3] = package /\ route[4] = project
    BY <2>3, <2>4 DEF Extended
  <2>6. ParametersOf(route) = package @@ project
    BY <1>5, <1>6, <2>5
  <2>7. OfTwo(package @@ project, package, project)
    BY TwoParts
  <2>8. Told(package @@ project, options)
    BY <1>3, <1>10, <2>7 DEF OfTwo, Told, Gets
  <2> QED
    BY <1>1, <1>2, <2>5, <2>6, <2>8
<1> QED
  BY <1>7, <1>8, <1>9, <1>10

\* The server makes the branch that the program expects.
LEMMA TargetIsMade ==
  ASSUME NEW username, NEW pkg, NEW options
  PROVE  /\ MadeFor(username, BranchRoute(pkg, options)) = TargetOfBranch(username, pkg, options)
         /\ IsObject(TargetOfBranch(username, pkg, options))
         /\ DOMAIN TargetOfBranch(username, pkg, options) = {"targetproject", "targetpackage"}
<1> DEFINE route == BranchRoute(pkg, options)
           parameters == ParametersOf(route)
           default == [targetproject |-> BranchesOf(username, pkg.projectName),
                       targetpackage |-> pkg.name]
           sent == [target_project |-> "targetproject", target_package |-> "targetpackage"]
           asked == [targetProject |-> "targetproject", targetPackage |-> "targetpackage"]
           p1 == Take(parameters, sent)
           q1 == Take(options, asked)
           made == p1 @@ default
           target == q1 @@ default
<1>1. /\ route[1] = pkg["projectName"] /\ route[2] = pkg["name"]
      /\ Told(parameters, options)
  BY RouteTells
<1> HIDE DEF route
<1>2. MadeFor(username, route)
        = p1 @@ [targetproject |-> BranchesOf(username, route[1]), targetpackage |-> route[2]]
  BY DEF MadeFor, ParametersOf
<1>3. MadeFor(username, route) = made
  BY <1>1, <1>2
<1>4. TargetOfBranch(username, pkg, options) = target
  BY DEF TargetOfBranch
<1>5. DOMAIN default = {"targetproject", "targetpackage"}
  OBVIOUS
<1>6. /\ DOMAIN sent = {"target_project", "target_package"}
      /\ sent["target_project"] = "targetproject" /\ sent["target_package"] = "targetpackage"
      /\ DOMAIN asked = {"targetProject", "targetPackage"}
      /\ asked["targetProject"] = "targetproject" /\ asked["targetPackage"] = "targetpackage"
  OBVIOUS
<1> HIDE DEF parameters, default, sent, asked
<1>7. OneToOne(sent) /\ OneToOne(asked)
  BY <1>6 DEF OneToOne
<1>8. /\ DOMAIN p1 \subseteq {"targetproject", "targetpackage"}
      /\ Gets(p1, "targetproject", parameters, "target_project", parameters["target_project"])
      /\ Gets(p1, "targetpackage", parameters, "target_package", parameters["target_package"])
  <2>1. DOMAIN p1 \subseteq {sent[m] : m \in DOMAIN sent}
    BY <1>7, OneTaken
  <2>2. \A m \in DOMAIN sent : Gets(p1, sent[m], parameters, m, parameters[m])
    BY <1>7, OneTaken
  <2> HIDE DEF p1
  <2> QED
    BY <1>6, <2>1, <2>2
<1>9. /\ DOMAIN q1 \subseteq {"targetproject", "targetpackage"}
      /\ Gets(q1, "targetproject", options, "targetProject", options["targetProject"])
      /\ Gets(q1, "targetpackage", options, "targetPackage", options["targetPackage"])
  <2>1. DOMAIN q1 \subseteq {asked[m] : m \in DOMAIN asked}
    BY <1>7, OneTaken
  <2>2. \A m \in DOMAIN asked : Gets(q1, asked[m], options, m, options[m])
    BY <1>7, OneTaken
  <2> HIDE DEF q1
  <2> QED
    BY <1>6, <2>1, <2>2
<1>10. OfTwo(made, p1, default) /\ OfTwo(target, q1, default)
  BY TwoParts
<1> HIDE DEF p1, q1, made, target
<1>11. DOMAIN p1 = DOMAIN q1 /\ \A m \in DOMAIN p1 : p1[m] = q1[m]
  BY <1>1, <1>8, <1>9 DEF Told, Gets
<1>12. /\ DOMAIN made = {"targetproject", "targetpackage"} /\ DOMAIN target = DOMAIN made
       /\ \A m \in DOMAIN made : made[m] = target[m]
  BY <1>5, <1>8, <1>10, <1>11 DEF OfTwo
<1>13. made = target
  BY <1>10, <1>12, SameMembers DEF OfTwo
<1> QED
  BY <1>3, <1>4, <1>10, <1>12, <1>13 DEF OfTwo, route

\* It takes a reply about it for it, and no reply about another one.
LEMMA BranchIsFetched ==
  ASSUME NEW username, NEW pkg, NEW options, NEW others
  PROVE  FetchesTheBranch(username, pkg, options, others)
<1> DEFINE target == TargetOfBranch(username, pkg, options)
           source == [sourcepackage |-> pkg.name, sourceproject |-> pkg.projectName]
           expected == target @@ source
<1>1. /\ MadeFor(username, BranchRoute(pkg, options)) = target
      /\ DOMAIN target = {"targetproject", "targetpackage"}
  BY TargetIsMade
<1>2. ASSUME NEW reply
      PROVE  BranchPackage(pkg.apiUrl, username, pkg, options, reply)
               = IF \E n \in DOMAIN reply \cap DOMAIN expected : reply[n] # expected[n]
                 THEN Rejected ELSE target
  BY DEF BranchPackage
<1>3. OfTwo(expected, target, source)
  BY TwoParts
<1> HIDE DEF target, expected, source
<1>4. ASSUME NEW named \in SUBSET DOMAIN target
      PROVE  LET reply == [n \in named |-> target[n]] IN
             /\ BranchPackage(pkg.apiUrl, username, pkg, options, reply) = target
             /\ \A n \in named :
                  others[n] # target[n] =>
                    BranchPackage(pkg.apiUrl, username, pkg, options,
                                  [reply EXCEPT ![n] = others[n]]) = Rejected
  <2> DEFINE reply == [n \in named |-> target[n]]
  <2>1. \A n \in DOMAIN reply \cap DOMAIN expected : reply[n] = expected[n]
    BY <1>3 DEF OfTwo
  <2>2. BranchPackage(pkg.apiUrl, username, pkg, options, reply) = target
    BY <1>2, <2>1
  <2>3. ASSUME NEW n \in named, others[n] # target[n]
        PROVE  BranchPackage(pkg.apiUrl, username, pkg, options,
                             [reply EXCEPT ![n] = others[n]]) = Rejected
    <3> DEFINE changed == [reply EXCEPT ![n] = others[n]]
    <3>1. DOMAIN changed = named /\ changed[n] = others[n]
      OBVIOUS
    <3> HIDE DEF changed
    <3>2. n \in DOMAIN expected /\ expected[n] = target[n]
      BY <1>3 DEF OfTwo
    <3>3. BranchPackage(pkg.apiUrl, username, pkg, options, changed) = Rejected
      BY <1>2, <2>3, <3>1, <3>2
    <3> QED
      BY <3>3 DEF changed
  <2> QED
    BY <2>2, <2>3
<1> QED
  BY <1>1, <1>4 DEF FetchesTheBranch

-----------------------------------------------------------------------------
(* Builds that are asked for by either overload                            *)

\* Where a build is, whatever it is asked by, and that no such route is rejected.
LEMMA RouteIsNotRejected ==
  ASSUME NEW a, NEW b, NEW c, NEW d
  PROVE  <<a, b, c, d>> # Rejected
<1>1. DOMAIN <<a, b, c, d>> = 1..4 /\ DOMAIN Rejected = {"rejected"}
  BY DEF Rejected
<1>2. 1 \in 1..4 /\ 2 \in 1..4 /\ 1 # 2
  OBVIOUS
<1> QED
  BY <1>1, <1>2

LEMMA EitherAsksForIt ==
  ASSUME NEW project, NEW package, NEW arch, NEW repository, NEW multibuild, NEW options,
         IsText(project), IsText(repository),
         multibuild # NotGiven => IsText(multibuild),
         "multibuildName" \notin DOMAIN options, "text" \notin DOMAIN options
  PROVE  AskedByEither(project, package, arch, repository, multibuild, options)
<1> DEFINE pkg == [projectName |-> project, name |-> package]
           given == IF multibuild = NotGiven THEN Empty ELSE "multibuildName" :> multibuild
           named == options @@ given
           suffix == WithSuffix(package, multibuild)
           build == <<project, repository, arch, suffix>>
           first == FetchBuildLog(project, package, arch, repository, named)
           second == FetchBuildLog(pkg, arch, repository, named, NotGiven)
<1>1. ~IsText(NotGiven) /\ DOMAIN NotGiven = {"undefined"}
  BY DEF IsText, NotGiven
<1>2. repository # NotGiven
  BY <1>1
<1>3. ~IsText(pkg) /\ pkg["projectName"] = project /\ pkg["name"] = package
  BY DEF IsText
<1>4. /\ multibuild = NotGiven => DOMAIN given = {}
      /\ multibuild # NotGiven =>
           DOMAIN given = {"multibuildName"} /\ given["multibuildName"] = multibuild
  BY OneMember, NoMember
<1>5. OfTwo(named, options, given)
  BY TwoParts
<1> HIDE DEF given, named, pkg
<1>6. NameIn(named) = multibuild
  BY <1>4, <1>5 DEF NameIn, OfTwo
<1>7. NameIn(NotGiven) = NotGiven
  BY <1>1 DEF NameIn
<1>8. ~IsText(named)
  <2>1. "text" \notin DOMAIN named
    BY <1>4, <1>5 DEF OfTwo
  <2> QED
    BY <2>1 DEF IsText
<1>9. CreateBuildRoute(project, package, arch, repository, multibuild) = build
  BY <1>2 DEF CreateBuildRoute
<1>10. CreateBuildRoute(pkg, arch, repository, multibuild, NotGiven) = build
  BY <1>3 DEF CreateBuildRoute
<1>11. build # Rejected
  BY RouteIsNotRejected
<1> HIDE DEF build
<1>12. /\ FetchStatus(project, package, arch, repository, multibuild, "_status")
            = [route |-> Append(build, <<"_status">>)]
       /\ FetchStatus(pkg, arch, repository, multibuild, NotGiven, "_status")
            = [route |-> Append(build, <<"_status">>)]
  BY <1>9, <1>10, <1>11 DEF FetchStatus
<1> DEFINE log == Append(build, <<"_log">>)
           query == {q \in {"nostream"} : OptionIn(named, "noStream") = {TRUE}}
                    \cup OptionIn(named, "fetchFinishedLog")
           callback == OptionIn(named, "streamCallback")
<1>13. /\ first # Rejected =>
            first["route"] = log /\ first["query"] = query /\ first["callback"] = callback
  <2> DEFINE rejected == /\ OptionIn(named, "noStream") = {TRUE}
                         /\ "streamCallback" \in DOMAIN named
             timeout == IF ~(OptionIn(named, "noStream") = {TRUE}) THEN {}
                        ELSE IF "streamTimeoutMs" \in DOMAIN named
                        THEN OptionIn(named, "streamTimeoutMs") ELSE {3600000}
             tries == IF OptionIn(named, "noStream") = {TRUE} THEN {0} ELSE {}
             reply == [route |-> log, query |-> query, callback |-> callback,
                       timeout |-> timeout, maxRetries |-> tries]
  <2>1. first = IF build = Rejected \/ rejected THEN Rejected ELSE reply
    BY <1>6, <1>9 DEF FetchBuildLog
  <2>2. /\ reply["route"] = log /\ reply["query"] = query /\ reply["callback"] = callback
    OBVIOUS
  <2> HIDE DEF reply, log, query, callback, first, rejected
  <2> QED
    BY <2>1, <2>2
<1>14. second["route"] = log /\ second["query"] = query /\ second["callback"] = callback
  <2> DEFINE unstreamed == OptionIn(NotGiven, "noStream") = {TRUE}
             timeout == IF ~unstreamed THEN {}
                        ELSE IF "streamTimeoutMs" \in DOMAIN named
                        THEN OptionIn(named, "streamTimeoutMs") ELSE {3600000}
             tries == IF unstreamed THEN {0} ELSE {}
             reply == [route |-> log, query |-> query, callback |-> callback,
                       timeout |-> timeout, maxRetries |-> tries]
  <2>1. ~unstreamed
    <3>1. OptionIn(NotGiven, "noStream") = {}
      BY <1>1 DEF OptionIn
    <3> QED
      BY <3>1
  <2>2. second = IF build = Rejected \/ (unstreamed /\ "streamCallback" \in DOMAIN NotGiven)
                 THEN Rejected ELSE reply
    BY <1>6, <1>7, <1>8, <1>10 DEF FetchBuildLog
  <2>3. /\ reply["route"] = log /\ reply["query"] = query /\ reply["callback"] = callback
    OBVIOUS
  <2> HIDE DEF reply, log, query, callback, second, unstreamed
  <2> QED
    BY <1>11, <2>1, <2>2, <2>3
<1> HIDE DEF first, second, log, query, callback
<1>15. /\ first = Rejected \/ first["route"] = second["route"]
       /\ first = Rejected \/ first["query"] = second["query"]
       /\ first = Rejected \/ first["callback"] = second["callback"]
  BY <1>13, <1>14
<1> QED
  BY <1>12, <1>14, <1>15 DEF AskedByEither, first, second, named, given, pkg, build, log

-----------------------------------------------------------------------------
(* The properties of a call                                                *)

\* What can be asked for.
AskedFlags ==
  /\ Asks("flag") => call.api \in FlagApis
  /\ Asks("settings") => call.settings \in SettingsOfSome /\ call.default \in Values
  /\ Asks("merge") => call.proj \in FlagApis /\ call.pkg \in FlagApis
AskedMetas ==
  /\ Asks("project meta") => call.api \in ProjectMetas
  /\ Asks("package meta") => call.api \in PackageMetas(call.project, call.package)
AskedRequests ==
  /\ Asks("action") => call.api \in Actions
  /\ Asks("review") =>
       \E by \in Reviewers, review \in Reviews : call.api = by @@ review
  /\ Asks("target") =>
       /\ call.from \in NamedPackages(STRING)
       /\ call.to \in NamedProjects(STRING) \cup NamedPackages(STRING)
       /\ \E url \in STRING :
            call.source \in Standing(call.from, url) /\ call.target \in Standing(call.to, url)
       /\ call.user # call.other /\ call.id \in Nat
AskedBuilds ==
  Asks("build") =>
    /\ IsText(call.project) /\ IsText(call.repository)
    /\ call.multibuild # NotGiven => IsText(call.multibuild)
    /\ "multibuildName" \notin DOMAIN call.options /\ "text" \notin DOMAIN call.options
AskedRight == AskedFlags /\ AskedMetas /\ AskedRequests /\ AskedBuilds

LEMMA TextIsText ==
  ASSUME NEW name
  PROVE  IsText(Text(name))
BY DEF IsText, Text

\* Nothing changes without another question.
LEMMA AskedOther ==
  ASSUME AskedRight, UNCHANGED call
  PROVE  AskedRight'
BY DEF AskedRight, AskedFlags, AskedMetas, AskedRequests, AskedBuilds, Asks

LEMMA Asked == Spec => []AskedRight
<1>1. Init => AskedRight
  BY DEF Init, AskedRight, AskedFlags, AskedMetas, AskedRequests, AskedBuilds, Asks, None
<1> USE DEF AskedRight, AskedFlags, AskedMetas, AskedRequests, AskedBuilds, Asks
<1>2. ASSUME AskedRight, [Next]_call PROVE AskedRight'
  <2>1. CASE AskFlag(FlagApis)
    BY <2>1 DEF AskFlag
  <2>2. CASE AskSettings(SettingsOfSome)
    BY <2>2 DEF AskSettings
  <2>3. CASE AskMerge(FlagApis)
    BY <2>3 DEF AskMerge
  <2>4. CASE AskProjectMeta(ProjectMetas)
    <3>1. PICK api \in ProjectMetas : call' = [kind |-> "project meta", api |-> api]
      BY <2>4 DEF AskProjectMeta
    <3>2. call'.kind = "project meta" /\ call'.api \in ProjectMetas
      BY <3>1
    <3> QED
      BY <3>2
  <2>5. CASE \E project, package \in STRING :
               AskPackageMeta(project, package, PackageMetas(project, package))
    <3>1. PICK project \in STRING, package \in STRING :
            \E api \in PackageMetas(project, package) :
              call' = [kind |-> "package meta", project |-> project, package |-> package,
                       api |-> api]
      BY <2>5 DEF AskPackageMeta
    <3>2. PICK api \in PackageMetas(project, package) :
            call' = [kind |-> "package meta", project |-> project, package |-> package,
                     api |-> api]
      BY <3>1
    <3>3. /\ call'.kind = "package meta" /\ call'.api \in PackageMetas(project, package)
          /\ call'.project = project /\ call'.package = package
      BY <3>2
    <3> QED
      BY <3>3
  <2>6. CASE AskAction(Actions)
    BY <2>6 DEF AskAction
  <2>7. CASE AskReview(Reviewers, Reviews)
    <3>1. PICK by \in Reviewers, review \in Reviews :
            call' = [kind |-> "review", api |-> by @@ review]
      BY <2>7 DEF AskReview
    <3> DEFINE api == by @@ review
    <3>2. \E b \in Reviewers, r \in Reviews : api = b @@ r
      OBVIOUS
    <3> HIDE DEF api
    <3>3. call'.kind = "review" /\ call'.api = api
      BY <3>1 DEF api
    <3> QED
      BY <3>2, <3>3
  <2>8. CASE AskTarget(STRING, Nat)
    <3>1. PICK from \in NamedPackages(STRING),
               to \in NamedProjects(STRING) \cup NamedPackages(STRING),
               url, user, other \in STRING, id \in Nat :
            \E source \in Standing(from, url), target \in Standing(to, url) :
              /\ user # other
              /\ call' = [kind |-> "target", from |-> from, source |-> source, to |-> to,
                          target |-> target, user |-> user, other |-> other, id |-> id]
      BY <2>8 DEF AskTarget
    <3>2. /\ call'.kind = "target" /\ call'.from = from /\ call'.to = to /\ call'.id = id
          /\ call'.user # call'.other
          /\ call'.source \in Standing(from, url) /\ call'.target \in Standing(to, url)
      BY <3>1
    <3> QED
      BY <3>2
  <2>9. CASE AskBranch(STRING, Seq(STRING), BranchOptions(STRING, Seq(STRING)))
    BY <2>9 DEF AskBranch
  <2>10. CASE AskBuild(STRING, {NotGiven} \cup {Text(name) : name \in STRING}, BuildOptions)
    <3>1. PICK project, package, arch, repository \in STRING,
               multibuild \in {NotGiven} \cup {Text(name) : name \in STRING},
               given \in BuildOptions :
            call' = [kind |-> "build", project |-> Text(project), package |-> Text(package),
                     arch |-> Text(arch), repository |-> Text(repository),
                     multibuild |-> multibuild, options |-> given]
      BY <2>10 DEF AskBuild
    <3>2. DOMAIN given \subseteq {"noStream", "fetchFinishedLog", "streamCallback",
                                  "streamTimeoutMs"}
      <4> DEFINE members == [noStream |-> BOOLEAN, fetchFinishedLog |-> {"last", "lastsucceeded"},
                             streamCallback |-> STRING, streamTimeoutMs |-> Nat]
      <4>1. DOMAIN members = {"noStream", "fetchFinishedLog", "streamCallback",
                              "streamTimeoutMs"}
        OBVIOUS
      <4>2. given \in Objects(members, {})
        BY DEF BuildOptions
      <4> HIDE DEF members
      <4> QED
        BY <4>1, <4>2, Membered
    <3>3. /\ IsText(Text(project)) /\ IsText(Text(repository))
          /\ multibuild # NotGiven => IsText(multibuild)
      BY TextIsText
    <3> QED
      BY <3>1, <3>2, <3>3
  <2>11. CASE UNCHANGED call
    BY <1>2, <2>11, AskedOther
  <2> QED
    BY <1>2, <2>1, <2>2, <2>3, <2>4, <2>5, <2>6, <2>7, <2>8, <2>9, <2>10, <2>11 DEF Next
<1> QED
  BY <1>1, <1>2, PTL DEF Spec

\* A flag that is fetched and set again is as it was, for every set of elements, and
\* what is set for any of the repositories and their architectures is what is read
\* back, the default where nothing was set (flagFromApi, flagToApi,
\* repositorySettingToFlag, repositorySettingFromFlag).
THEOREM FlagsAreKept == Spec => []FlagsSurvive
<1>1. AskedRight => FlagsSurvive
  BY FlagIsKept, SettingsAreKept DEF AskedRight, AskedFlags, FlagsSurvive
<1> QED
  BY <1>1, Asked, PTL

\* A setting follows the precedence of the flag's elements, for every repository and
\* architecture and lists that have each element any number of times; an element
\* without an arch counts only where its list has no other one for the repository
\* (repositorySettingFromFlag).
THEOREM SettingsFollowRules == Spec => []SettingFollowsRules
<1>1. ASSUME AskedRight, Asks("flag"), NEW r \in Repositories, NEW default \in Values
      PROVE  FollowsRule(r, FlagFromApi(call.api), default)
  <2> DEFINE flag == FlagFromApi(call.api)
  <2>1. call.api \in FlagApis
    BY <1>1 DEF AskedRight, AskedFlags
  <2>2. flag.enable \in Lists /\ flag.disable \in Lists
    BY <2>1, ReadLists DEF Plainly
  <2> HIDE DEF flag
  <2>3. FollowsRule(r, flag, default)
    BY <2>2, RuleIsFollowed
  <2> QED
    BY <2>3 DEF flag
<1>2. AskedRight => SettingFollowsRules
  BY <1>1 DEF SettingFollowsRules
<1> QED
  BY <1>2, Asked, PTL

\* What a package's meta says of an architecture goes before what its project's
\* says, and that before the default, for all flags of both (mergeFlags).
THEOREM PackagesGoFirst == Spec => []PackageOverridesProject
<1>1. ASSUME AskedRight, Asks("merge"), NEW r \in Repositories
      PROVE  PackageGoesFirst(r, FlagFromApi(call.proj), FlagFromApi(call.pkg), call.default)
  <2>1. call.pkg \in FlagApis
    BY <1>1 DEF AskedRight, AskedFlags
  <2>2. FlagFromApi(call.pkg).defaultValue \in Values
    BY <2>1, ReadLists
  <2>3. FlagFromApi(call.pkg) # NoMeta
    <3>1. NoMeta.defaultValue = "no meta"
      BY DEF NoMeta, Flag
    <3>2. "no meta" \notin Values
      BY DEF Values, Given
    <3> QED
      BY <2>2, <3>1, <3>2
  <2> QED
    BY <2>3, PackageIsFirst
<1>2. AskedRight => PackageOverridesProject
  BY <1>1 DEF PackageOverridesProject
<1> QED
  BY <1>2, Asked, PTL

\* A project's or package's meta that is fetched and set again is the same on the
\* server, for all members that either may have, lists of every length and flags of
\* every kind: nothing but the two defaults is added or left out (projectMetaFromApi,
\* projectMetaToApi, packageMetaFromApi, packageMetaToApi).
THEOREM MetasAreKept == Spec => []MetasSurvive
<1>1. ASSUME AskedRight, Asks("project meta") PROVE ProjectMetaSurvives(call.api)
  BY <1>1, ProjectMetaIsKept DEF AskedRight, AskedMetas
<1>2. ASSUME AskedRight, Asks("package meta")
      PROVE  PackageMetaSurvives(call.project, call.package, call.api)
  BY <1>2, PackageMetaIsKept DEF AskedRight, AskedMetas
<1>3. AskedRight => MetasSurvive
  BY <1>1, <1>2 DEF MetasSurvive
<1> QED
  BY <1>3, Asked, PTL

\* The actions and reviews of requests are sent as they were read, with histories of
\* every length (requestActionFromApi, requestActionToApi, requestReviewFromApi,
\* requestReviewToApi).
THEOREM RequestsAreKept == Spec => []RequestsSurvive
<1>1. ASSUME AskedRight, Asks("action") PROVE ActionSurvives(call.api)
  BY <1>1, ActionIsKept DEF AskedRight, AskedRequests
<1>2. ASSUME AskedRight, Asks("review") PROVE ReviewSurvives(call.api)
  <2>1. PICK by \in Reviewers, review \in Reviews : call.api = by @@ review
    BY <1>2 DEF AskedRight, AskedRequests
  <2> QED
    BY <2>1, ReviewIsKept
<1>3. AskedRight => RequestsSurvive
  BY <1>1, <1>2 DEF RequestsSurvive
<1> QED
  BY <1>3, Asked, PTL

\* Whatever objects stand for a package and a target, the request is about these, a
\* submission to a project about the package of the same name there; a reply about another user's request or about another branch is rejected
\* (submitPackage, requestDeletion, createRequest, fetchRequest, branchPackage).
THEOREM AskedIsCreated == Spec => []CreatedForWhatWasAsked
<1>1. ASSUME AskedRight, Asks("target")
      PROVE  /\ CreatedForTarget(call.user, call.other, call.id,
                                 RequestDeletion(call.target), call.to)
             /\ CreatedForTarget(call.user, call.other, call.id,
                                 SubmitPackage(call.source, call.target),
                                 call.to @@ "packageName" :> call.from.packageName)
             /\ SubmitPackage(call.source, call.target).action[1].source
                  = [project |-> call.from.projectName, package |-> call.from.packageName]
  <2>1. /\ call.from \in NamedPackages(STRING)
        /\ call.to \in NamedProjects(STRING) \cup NamedPackages(STRING)
        /\ \E url \in STRING :
             call.source \in Standing(call.from, url) /\ call.target \in Standing(call.to, url)
        /\ call.user # call.other /\ call.id \in Nat
    BY <1>1 DEF AskedRight, AskedRequests
  <2>2. PICK url \in STRING :
          call.source \in Standing(call.from, url) /\ call.target \in Standing(call.to, url)
    BY <2>1
  <2> DEFINE from == call.from
             to == call.to
             source == call.source
             target == call.target
             user == call.user
             other == call.other
             id == call.id
  <2>3. /\ from \in NamedPackages(STRING)
        /\ to \in NamedProjects(STRING) \cup NamedPackages(STRING)
        /\ source \in Standing(from, url) /\ target \in Standing(to, url)
        /\ user # other /\ id \in Nat
    BY <2>1, <2>2
  <2> HIDE DEF from, to, source, target, user, other, id
  <2>4. /\ CreatedForTarget(user, other, id, RequestDeletion(target), to)
        /\ CreatedForTarget(user, other, id, SubmitPackage(source, target),
                            to @@ "packageName" :> from.packageName)
        /\ SubmitPackage(source, target).action[1].source
             = [project |-> from.projectName, package |-> from.packageName]
    BY <2>3, AskedForIsCreated
  <2> QED
    BY <2>4 DEF from, to, source, target, user, other, id
<1>2. AskedRight => CreatedForWhatWasAsked
  BY <1>1, BranchIsFetched DEF CreatedForWhatWasAsked
<1> QED
  BY <1>2, Asked, PTL

\* Either overload asks for the status and the log of the build that the caller names,
\* with the same parameters and callback (createBuildRoute, fetchBuildStatus,
\* fetchJobStatus, fetchBuildLog).
THEOREM BuildsAreFetched == Spec => []BuildIsFetchedAsAsked
<1>1. AskedRight => BuildIsFetchedAsAsked
  BY EitherAsksForIt DEF AskedRight, AskedBuilds, BuildIsFetchedAsAsked
<1> QED
  BY <1>1, Asked, PTL
=============================================================================
