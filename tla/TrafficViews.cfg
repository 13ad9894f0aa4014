SPECIFICATION Spec
CONSTANTS
  Columns <- MCColumns
  Panels <- MCPanels
  Defaults <- MCDefaults
  FeatureOf <- MCFeatureOf
  Presets <- MCPresets
  MetricOf <- MCMetricOf
  Enabled = {"dns", "tls"}
  MaxEdits = 2
INVARIANTS ViewsInv MetricIsDue
PROPERTIES OthersKept Settles
