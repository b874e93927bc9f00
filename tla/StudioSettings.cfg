SPECIFICATION Spec
CONSTANTS
  LayerCount = 3
  StockCount = 2
  PositionCount = 1
  HoldTapCount = 1
  ComboCount = 1
  Bindings <- MCBindings
  StockKeymap <- MCStockKeymap
  Names = {"stock", "new"}
  StockName <- MCStockName
  Layouts = {"default", "other"}
  DefaultLayout = "default"
  Configs = {"stock", "new"}
  StockConfig <- MCStockConfig
  MaxEdits = 2
  Inval = Inval
  None = None
INVARIANTS
  StateSound
  ReportedWhenDiffers
  ToldTheTruth
  ResetClearsConfigs
