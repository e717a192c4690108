--------------------------------- MODULE Flags ---------------------------------
(***************************************************************************)
(* The flags of a project's or package's meta (src/api/flag.ts) and the    *)
(* settings of repositories that follow from them (src/repository.ts): a   *)
(* flag lists what is enabled and disabled for which repositories and      *)
(* architectures, a setting says it for each architecture of a repository. *)
(***************************************************************************)
EXTENDS Naturals, FiniteSets

CONSTANTS
  Repositories,   \* names of repositories
  Architectures   \* those of each repository

\* Both are lists of a meta; "any" stands for the attribute that is left out.
ASSUME FlagsAssumption ==
  /\ IsFiniteSet(Repositories) /\ "any" \notin Repositories
  /\ IsFiniteSet(Architectures) /\ "any" \notin Architectures

Given == {"on", "off"}
Values == Given \cup {"unset"}

\* An <enable> or <disable> element.  One without attributes is the default; it
\* arrives as "", and { $: {} } is sent as the same.
Switch(repository, arch) == [repository |-> repository, arch |-> arch]
Switches ==
  {Switch(r, a) : r \in Repositories \cup {"any"}, a \in Architectures \cup {"any"}}
Bare == Switch("any", "any")

\* A list says how often it has each element; the order makes no difference.
Lists == [Switches -> Nat]
In(list) == {s \in Switches : list[s] > 0}
NoSwitches == [s \in Switches |-> 0]

\* The flag as it is sent and received.
FlagApi(enable, disable) == [enable |-> enable, disable |-> disable]
\* The flag as the program has it.
Flag(default, enable, disable) ==
  [defaultValue |-> default, enable |-> enable, disable |-> disable]
Undefined == Flag("undefined", NoSwitches, NoSwitches)

\* flagFromApi() throws.
Contradictory(api) == Bare \in In(api.enable) /\ Bare \in In(api.disable)

FlagFromApi(api) ==
  Flag(IF Bare \in In(api.enable) THEN "on"
       ELSE IF Bare \in In(api.disable) THEN "off" ELSE "unset",
       [api.enable EXCEPT ![Bare] = 0], [api.disable EXCEPT ![Bare] = 0])

WithDefault(list, said) == [list EXCEPT ![Bare] = IF said THEN @ + 1 ELSE @]
\* Faulty: the default is left out if there are other elements.
FlagToApiShort(flag) ==
  FlagApi(WithDefault(flag.enable, flag.defaultValue = "on" /\ In(flag.enable) = {}),
          WithDefault(flag.disable, flag.defaultValue = "off" /\ In(flag.disable) = {}))
FlagToApi(flag) ==
  FlagApi(WithDefault(flag.enable, flag.defaultValue = "on"),
          WithDefault(flag.disable, flag.defaultValue = "off"))

-----------------------------------------------------------------------------
(* A setting is one value for the repository, or one per architecture.     *)

One(value) == [all |-> TRUE, value |-> value]
PerArch(values) == [all |-> FALSE, values |-> values]
ValueAt(setting, arch) ==
  IF setting.all THEN setting.value ELSE setting.values[arch]

\* simplifyRepositorySetting()
Simplify(values) ==
  IF \A a, b \in DOMAIN values : values[a] = values[b]
  THEN One(values[CHOOSE a \in DOMAIN values : TRUE])
  ELSE PerArch(values)

Or(value, default) == IF value = "unset" THEN default ELSE value

\* applyDefaultSetting()
ApplyDefault(setting, default) ==
  IF setting.all THEN One(Or(setting.value, default))
  ELSE PerArch([a \in DOMAIN setting.values |-> Or(setting.values[a], default)])

Matching(list, repository) ==
  {s \in In(list) : s.repository \in {repository, "any"}}
Says(list, repository, arch) == \E s \in Matching(list, repository) : s.arch = arch
\* The only matching element has no arch: it is the new default.
Whole(list, repository) ==
  \E s \in Switches :
    Matching(list, repository) = {s} /\ list[s] = 1 /\ s.arch = "any"

\* Faulty: what is enabled wins over what is disabled.
EnabledFirst(repository, flag, arch, default) ==
  IF Says(flag.enable, repository, arch) THEN "on"
  ELSE IF Says(flag.disable, repository, arch) THEN "off"
  ELSE IF Whole(flag.disable, repository) THEN "off"
  ELSE IF Whole(flag.enable, repository) THEN "on" ELSE default
\* The lists are applied one after the other, the disabled last.
Applied(repository, flag, arch, default) ==
  IF Says(flag.disable, repository, arch) THEN "off"
  ELSE IF Says(flag.enable, repository, arch) THEN "on"
  ELSE IF Whole(flag.disable, repository) THEN "off"
  ELSE IF Whole(flag.enable, repository) THEN "on" ELSE default

\* repositorySettingFromFlag()
SettingFromFlag(repository, flag, default) ==
  LET global == IF flag.defaultValue \in Given THEN flag.defaultValue ELSE default
  IN IF Matching(flag.enable, repository) = {} /\ Matching(flag.disable, repository) = {}
     THEN One(global)
     ELSE Simplify([a \in Architectures |-> Applied(repository, flag, a, global)])

\* repositorySettingToFlag(): each element once, what equals the default not at all.
Wants(settings, value, s) ==
  /\ s.repository \in DOMAIN settings
  /\ LET setting == settings[s.repository] IN
     IF setting.all THEN s.arch = "any" /\ setting.value = value
     ELSE s.arch # "any" /\ setting.values[s.arch] = value
Wanted(settings, value) ==
  [s \in Switches |-> IF Wants(settings, value, s) THEN 1 ELSE 0]
SettingToFlag(settings, default) ==
  IF DOMAIN settings = {} THEN Undefined
  ELSE Flag(default,
            IF default = "on" THEN NoSwitches ELSE Wanted(settings, "on"),
            IF default = "off" THEN NoSwitches ELSE Wanted(settings, "off"))

-----------------------------------------------------------------------------
(* A package's flags over those of its project                             *)

\* Faulty: the package's setting is used where the project has none.
MergeFromProject(proj, pkg, default) ==
  IF proj = One("unset") THEN ApplyDefault(pkg, default) ELSE ApplyDefault(proj, default)
MergeFlags(proj, pkg, default) ==
  IF proj = One("unset") THEN ApplyDefault(pkg, default)
  ELSE IF pkg = One("unset") THEN ApplyDefault(proj, default)
  ELSE IF pkg.all THEN pkg
  ELSE ApplyDefault(Simplify([a \in Architectures |->
         Or(pkg.values[a], Or(ValueAt(proj, a), default))]), default)

NoMeta == Flag("no meta", NoSwitches, NoSwitches)

\* repositoryWithFlagsFromMeta(), for one repository and one of the four flags:
\* the defaults come last when there is a package's meta.
SettingFromMetas(repository, projFlag, pkgFlag, default) ==
  IF pkgFlag = NoMeta THEN SettingFromFlag(repository, projFlag, default)
  ELSE MergeFlags(SettingFromFlag(repository, projFlag, "unset"),
                  SettingFromFlag(repository, pkgFlag, "unset"), default)

-----------------------------------------------------------------------------

\* What the server has survives being read, converted and written back, a default
\* that is said more than once as one; and settings survive being made into a
\* flag, sent, received and read, except that the default stands for those that
\* were not set.
DefaultOnce(list) == [list EXCEPT ![Bare] = IF @ > 0 THEN 1 ELSE 0]
FlagSurvives(api) ==
  ~Contradictory(api) =>
    FlagToApi(FlagFromApi(api)) = FlagApi(DefaultOnce(api.enable), DefaultOnce(api.disable))
SettingsSurvive(settings, default) ==
  LET flag == FlagFromApi(FlagToApi(SettingToFlag(settings, default))) IN
  \A r \in DOMAIN settings : \A a \in Architectures :
    ValueAt(SettingFromFlag(r, flag, default), a) = Or(ValueAt(settings[r], a), default)

\* An element without an arch is heeded if no other one of its list, nor the same
\* once more, is about the repository.  The comment in the code has every one
\* make a new default.
Heeded(list, repository) ==
  /\ Says(list, repository, "any")
  /\ \A s, t \in Matching(list, repository) : s = t /\ list[s] < 2

\* An element with an arch goes before one without, disabled before enabled,
\* both before the flag's default, and that before the caller's.
Rule(repository, arch, flag, default) ==
  CASE Says(flag.disable, repository, arch) -> "off"
    [] ~Says(flag.disable, repository, arch) /\ Says(flag.enable, repository, arch) -> "on"
    [] OTHER -> IF Heeded(flag.disable, repository) THEN "off"
                ELSE IF Heeded(flag.enable, repository) THEN "on"
                ELSE Or(IF flag.defaultValue \in Given THEN flag.defaultValue
                        ELSE "unset", default)

FollowsRule(repository, flag, default) ==
  \A a \in Architectures :
    ValueAt(SettingFromFlag(repository, flag, default), a)
      = Rule(repository, a, flag, default)

\* What the package says goes before what its project says, for each
\* architecture by itself.
PackageGoesFirst(repository, projFlag, pkgFlag, default) ==
  \A a \in Architectures :
    ValueAt(SettingFromMetas(repository, projFlag, pkgFlag, default), a)
      = Or(ValueAt(SettingFromFlag(repository, pkgFlag, "unset"), a),
           Or(ValueAt(SettingFromFlag(repository, projFlag, "unset"), a), default))
=============================================================================
