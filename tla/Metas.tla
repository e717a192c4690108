-------------------------------- MODULE Metas --------------------------------
(***************************************************************************)
(* The meta of projects and packages (src/api/project-meta.ts,             *)
(* src/api/package-meta.ts, src/api/base-types.ts): what of it the program *)
(* reads and what it writes back.                                          *)
(***************************************************************************)
EXTENDS Objects, Flags

SimpleFlagToBoolean(flag) == flag = "enable"
BooleanToSimpleFlag(value) == IF value THEN "enable" ELSE "disable"

UserFromApi(user) == Take(user, [userid |-> "id", role |-> "role"])
UserToApi(user) == Take(user, [id |-> "userid", role |-> "role"])
GroupFromApi(group) == Take(group, [groupid |-> "id", role |-> "role"])
GroupToApi(group) == Take(group, [id |-> "groupid", role |-> "role"])

-----------------------------------------------------------------------------
(* What projects and packages have in common                               *)

Plain == [title |-> "title", description |-> "description", url |-> "url"]

CommonMetaFromApi(api) ==
  Take(api, Plain)
  @@ Child(api, "build", "build", FlagFromApi)
  @@ Child(api, "debuginfo", "debugInfo", FlagFromApi)
  @@ Children(api, "group", "group", GroupFromApi)
  @@ Child(api, "lock", "lock", SimpleFlagToBoolean)
  @@ Children(api, "person", "person", UserFromApi)
  @@ Child(api, "publish", "publish", FlagFromApi)
  @@ Child(api, "sourceaccess", "sourceAccess", SimpleFlagToBoolean)
  @@ Child(api, "useforbuild", "useForBuild", FlagFromApi)

CommonMetaToApi(meta) ==
  Take(meta, Plain)
  @@ Child(meta, "build", "build", FlagToApi)
  @@ Child(meta, "debugInfo", "debuginfo", FlagToApi)
  @@ Child(meta, "lock", "lock", BooleanToSimpleFlag)
  @@ Child(meta, "publish", "publish", FlagToApi)
  @@ Child(meta, "sourceAccess", "sourceaccess", BooleanToSimpleFlag)
  @@ Child(meta, "useForBuild", "useforbuild", FlagToApi)
  @@ Children(meta, "person", "person", UserToApi)
  @@ Children(meta, "group", "group", GroupToApi)

-----------------------------------------------------------------------------
(* Repositories and projects.  Paths are copied as they are.               *)

LinkFromApi(link) == Take(link, [project |-> "project", vrevmode |-> "vrevmode"])
                     @@ "vrevmode" :> "standard"
LinkToApi(link) == Copied(link)

NoRelease == "no_release"
ReleaseTargetFromApi(target) ==
  Take(target, [project |-> "project", repository |-> "repository",
                trigger |-> "trigger"])
  @@ "trigger" :> NoRelease
ReleaseTargetToApi(target) ==
  Take(target, [project |-> "project", repository |-> "repository"])
  @@ IF target.trigger = NoRelease THEN Empty ELSE "trigger" :> target.trigger

\* The filter is a text of names with commas between them.
Joined(names) == [joined |-> names]
Split(text) == text.joined

DownloadFromApi(download) ==
  Take(download, [arch |-> "arch", url |-> "url", repotype |-> "repositoryType",
                  pubkey |-> "publicKey"])
  @@ Child(download, "archfilter", "architectureFilter", Split)
  @@ Child(download, "master", "sslMaster",
           LAMBDA m : Take(m, [url |-> "url", sslfingerprint |-> "fingerprint"]))
DownloadToApi(download) ==
  Take(download, [arch |-> "arch", url |-> "url", repositoryType |-> "repotype",
                  publicKey |-> "pubkey"])
  @@ Child(download, "sslMaster", "master",
           LAMBDA m : Take(m, [url |-> "url", fingerprint |-> "sslfingerprint"]))
  @@ IF ListOf(download, "architectureFilter", Copied) = <<>> THEN Empty
     ELSE Child(download, "architectureFilter", "archfilter", Joined)

BaseRepositoryFromApi(repository) ==
  Take(repository, [block |-> "block", linkedbuild |-> "linkedBuild", name |-> "name",
                    rebuild |-> "rebuild"])
  @@ Children(repository, "arch", "arch", Copied)
  @@ Children(repository, "path", "path", Copied)
  @@ Children(repository, "releasetarget", "releaseTarget", ReleaseTargetFromApi)
  @@ Children(repository, "download", "downloadOnDemand", DownloadFromApi)

\* Faulty: the mode of linked builds is not written.
BaseRepositoryToApiUnlinked(repository) ==
  Take(repository, [block |-> "block", name |-> "name", rebuild |-> "rebuild"])
  @@ Children(repository, "arch", "arch", Copied)
  @@ Children(repository, "path", "path", Copied)
  @@ Children(repository, "releaseTarget", "releasetarget", ReleaseTargetToApi)
  @@ Children(repository, "downloadOnDemand", "download", DownloadToApi)
BaseRepositoryToApi(repository) ==
  Take(repository, [block |-> "block", linkedBuild |-> "linkedbuild", name |-> "name",
                    rebuild |-> "rebuild"])
  @@ Children(repository, "arch", "arch", Copied)
  @@ Children(repository, "path", "path", Copied)
  @@ Children(repository, "releaseTarget", "releasetarget", ReleaseTargetToApi)
  @@ Children(repository, "downloadOnDemand", "download", DownloadToApi)

ProjectMetaFromApi(api) ==
  CommonMetaFromApi(api)
  @@ Take(api, [name |-> "name", kind |-> "kind", mountproject |-> "mountProject"])
  @@ Child(api, "access", "access", SimpleFlagToBoolean)
  @@ Children(api, "link", "link", LinkFromApi)
  @@ Children(api, "repository", "repository", BaseRepositoryFromApi)

ProjectMetaToApi(meta) ==
  CommonMetaToApi(meta)
  @@ Take(meta, [name |-> "name", kind |-> "kind", mountProject |-> "mountproject"])
  @@ Child(meta, "access", "access", BooleanToSimpleFlag)
  @@ Children(meta, "link", "link", LinkToApi)
  @@ Children(meta, "repository", "repository", BaseRepositoryToApi)

\* fetchProjectMeta() and modifyProjectMeta(): the reply has to be about the
\* project; what is written goes to the route of its name.
FetchProjectMeta(name, api) ==
  IF api.name = name THEN ProjectMetaFromApi(api) ELSE Rejected
ModifyProjectMeta(meta) == [route |-> meta.name, payload |-> ProjectMetaToApi(meta)]

-----------------------------------------------------------------------------
(* Packages                                                                *)

PackageMetaFromApi(api) ==
  Take(api, [name |-> "name", project |-> "project"])
  @@ Child(api, "devel", "develPackage", Copied)
  @@ CommonMetaFromApi(api)

PackageMetaToApi(meta) ==
  Take(meta, [name |-> "name", project |-> "project"])
  @@ CommonMetaToApi(meta)
  @@ Child(meta, "develPackage", "devel", Copied)

\* Only a meta with both names is compared with those of the package.
SetPackageMeta(project, package, meta) ==
  IF {"project", "name"} \subseteq DOMAIN meta
     /\ ~(meta.project = project /\ meta.name = package)
  THEN Rejected
  ELSE [route |-> <<project, package>>, payload |-> PackageMetaToApi(meta)]

-----------------------------------------------------------------------------

\* What is written is what was read, but for two defaults: how versions of a
\* linked project count is made explicit, that nothing is released is not.
ExplicitTarget(target) ==
  [n \in {k \in DOMAIN target : k # "trigger" \/ target[k] # NoRelease} |-> target[n]]
Explicit(repository) ==
  [m \in DOMAIN repository |->
     IF m # "releasetarget" THEN repository[m]
     ELSE [i \in DOMAIN repository[m] |-> ExplicitTarget(repository[m][i])]]
Normal(api) ==
  [m \in DOMAIN api |->
     CASE m = "link" -> [i \in DOMAIN api.link |->
                           api.link[i] @@ "vrevmode" :> "standard"]
       [] m = "repository" -> [i \in DOMAIN api.repository |->
                                 Explicit(api.repository[i])]
       [] OTHER -> api[m]]

\* A project's meta that is fetched and set again is the same on the server.
ProjectMetaSurvives(api) ==
  ModifyProjectMeta(FetchProjectMeta(api.name, api))
    = [route |-> api.name, payload |-> Normal(api)]

\* And so is a package's.
PackageMetaSurvives(project, package, api) ==
  SetPackageMeta(project, package, PackageMetaFromApi(api))
    = [route |-> <<project, package>>, payload |-> Normal(api)]
=============================================================================
