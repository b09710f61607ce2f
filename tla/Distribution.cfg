SPECIFICATION Spec
CONSTANTS
  Manifests <- MCManifests
  Catalogue <- MCCatalogue
  Modules = {"querier", "fork"}
  Breaking = {"quoted"}
  LinkVersions = {"v9"}
  Configs <- MCConfigs
  Nothing = Nothing
  Torn = Torn
  MaxRuns = 2
INVARIANTS
  TypeOK
  RunsWhatWasSelected
  NothingSelectedIsLost
  SettingsFollowTheFile
CHECK_DEADLOCK FALSE
