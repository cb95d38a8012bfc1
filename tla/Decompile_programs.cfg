SPECIFICATION Spec
CONSTANTS
    Compiled <- MCCompiled
    Damaged <- MCDamaged
    builtins <- BuiltinNames
    None = None
INVARIANT TypeOK
INVARIANT DecompileInvertsCompile
INVARIANT DamagedProgramYieldsPrefix
PROPERTY ExpressionsEndWithTheirStatement
CHECK_DEADLOCK FALSE
