CONSTANTS
    Word = 64
    Lane = 8
    Regs = {"zero", "r1", "r2", "ra", "k0"}
    Zero = "zero"
    Ra = "ra"
    K0 = "k0"
    Vector = 16
    BootVector = 40
    Handler <- HandlerAddresses
    Faulty = {2, 26}
    Machines <- MCMachines
SPECIFICATION Spec
INVARIANTS
    Disciplined
    PcShape
    ContextComplete
PROPERTIES
    ExceptionsInvisible
