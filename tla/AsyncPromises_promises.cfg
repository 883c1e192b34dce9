SPECIFICATION PromisesSpec
CHECK_DEADLOCK FALSE
CONSTANTS
  Identifiers = {"a", "b"}
  Local = {"l"}
  Remote = {"r", "s"}
  TxGas = {9}
  ProvidedGas = {0, 2, 15}
  AnswerGas = {4}
  Uses = {0, 2}
  GasModulus = 16
  AsyncCallStep = 1
  StoreCost = 1
  MaxCalls = 3
  MaxPlain = 1
INVARIANTS CallerCalledWhenResolved GasForwarded NoneForgotten
PROPERTY CallerAnswered
