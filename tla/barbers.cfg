CONSTANTS
  Chairs = 3
  LineCustomers = {"c1", "c2", "c3", "c4"}
SPECIFICATION EitherSpec
INVARIANTS CurrInRange NoDeadChair NumberInRange
PROPERTY BarberComes
