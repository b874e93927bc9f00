SPECIFICATION Spec
CONSTANTS
  LayerCount = 2
  StockCount = 1
  PositionCount = 1
  HoldTapCount = 1
  ComboCount = 0
  Bindings <- MCBindings
  StockKeymap <- MCStockKeymap
  Names = {"stock"}
  StockName <- MCStockName
  Layouts = {"default"}
  DefaultLayout = "default"
  Configs = {"stock"}
  StockConfig <- MCStockConfig
  MaxEdits = 1
  Inval = Inval
  None = None
INVARIANT
  ResetRestoresStock
