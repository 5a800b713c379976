CONSTANT XLEN = 8
SPECIFICATION AluSpec
INVARIANTS ArithmeticMatchesManual ComparisonsMatchManual
