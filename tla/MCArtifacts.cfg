SPECIFICATION Artifacts
CONSTANTS
  Loads = {l1, l2}
  Roots = {s1, s2, ev}
  Nothing = Nothing
  Files <- AllFiles
  Entry = entry
  Project = Nobody
  Places = {depPlace, simPlace}
  Owner <- Owners
  Rel <- OwnPath
  Name <- PlaceNames
  ManifestOf <- PackageFiles
  Surface = simPlace
  Specs <- AllSpecs
  Relative = {"helper"}
  RunSpecs <- Runs
  TypeSpecs <- Types
  RunCandidates <- Resolves
  TypeCandidates <- Resolves
  TypeEntries <- AllTypeEntries
  ToolLock = toolLock
  ProjectManifest = manifest
  ProjectLock = lock
  Locked <- Listing
  Agree <- Agreement
  SelfLink <- Links
  Scratch <- OwnScratch
  Evidence <- OneEvidence
  Editable <- Edited
  MaxEdits = 2
  InitialDisk <- OnDisk
  l1 = l1
  l2 = l2
  s1 = s1
  s2 = s2
  ev = ev
  entry = entry
  helper = helper
  shadow = shadow
  dep = dep
  types = types
  depManifest = depManifest
  simManifest = simManifest
  toolLock = toolLock
  manifest = manifest
  lock = lock
  Nobody = Nobody
  depPlace = depPlace
  simPlace = simPlace
  Callers = {c1, c2}
  InputFiles <- AllInputs
  Declared <- ByLabel
  Provider = {provider}
  Authority <- LocksAndTools
  Service <- AsWalked
  Composer <- AsLoaded
  MaxChanges = 1
  MaxLosses = 1
  c1 = c1
  c2 = c2
  provider = provider
  tool = tool
  source = source
  composer = composer
  Worlds = {"w1", "w2"}
  MaxStarts = 3
  MaxTicks = 2
INVARIANT SourcesCoexist
INVARIANT LoadsEvidenced
INVARIANT BundlesExact
INVARIANT SidecarExact
PROPERTY SidecarSettles
CHECK_DEADLOCK FALSE
