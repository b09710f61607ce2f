\* Joins of metrics, logs and tables: matching, merging, schema and feedback.
SPECIFICATION Spec
CONSTANTS
  Input <- Joins
  NoText = NoText
  TornJSON = TornJSON
  NameLess <- ByName
INVARIANTS
  TypeOK
  SchemaCoversRows
  JoinsRowsThatAgree
  WarningsSurviveTheJoin
  UnambiguousNamesKeepEveryAttribute
  RenderingShowsEveryCell
