SPECIFICATION CatalogSpec

CONSTANTS
  Provider <- MCProvider
  Model <- MCModel
  Aliases <- MCAliases
  Priority <- MCPriority
  DefaultModel <- MCDefaultModel
  StandsInFor <- MCStandsInFor
  Passthrough = {3}
  Probes <- MCProbes
  SmallDefaults <- MCSmallDefaults
  Names <- MCNames
  NoName = NoName
  Default = Default
  Configurations <- MCConfigurations
  Links = 2
  Builtin = {1, 2}
  Terms <- MCTerms
  Pieces <- MCPieces
  Spelling <- MCSpelling
  Needles <- MCNeedles

  Named <- MCNamed
  Unnamed <- MCUnnamed
  Unparsable <- NoDocument
  BuiltinFiles <- MCBuiltinFiles
  BuiltinEnabled = {TRUE, FALSE}
  MaxLayers = 3

INVARIANT
  QueryAgreesWithResolver
